---- MODULE Spec2Model ----
(***************************************************************************)
(* Blink: a state-machine model of the background tracker (background.js)  *)
(* and of the content script (content.js): the activity monitor and the    *)
(* break banner.                                                           *)
(*                                                                         *)
(* Time is in milliseconds, as in the code.  Date.now() is the variable    *)
(* clock.  Timestamps that the code tests for truthiness (null or a        *)
(* number) are numbers here, 0 standing for null: the code reads them only *)
(* through !x / if (x), and the clock starts above 0.                      *)
(*                                                                         *)
(* chrome.storage.local serves requests in the order they are issued: a    *)
(* get or set takes effect in the step that issues it, and the code after  *)
(* the await runs in a later step.  Every await of the code is a           *)
(* suspension point at which the other handlers may run.                   *)
(***************************************************************************)
EXTENDS Integers, Sequences, FiniteSets, TLC

VARIABLES
    clock,                    \* Date.now()
    \* ---- background.js: runtime state
    activeDomain, activeCategory, activeStart,
    productiveSessionStart, productiveAccumulated, distractingStart,
    \* ---- chrome.storage.local
    domainStats, lastShownBreakThreshold, storedProductiveAccumulated,
    \* ---- background.js: handlers in flight
    focus,                    \* handleTabChange calls, by slot
    addReq,                   \* addDomainTime handlers, by slot
    tick,                     \* the periodicChecks call in flight
    sent,                     \* the messages the last step broadcast or answered
    classified,               \* the last call of getCategoryForUrl: arguments and result
    boot,                     \* the onInstalled or onStartup listener in flight
    \* ---- history of the run (read by the bounds and the properties only)
    focusCount,               \* handleTabChange calls so far
    addCount,                 \* addDomainTime requests accepted so far
    credited,                 \* per domain, the sum of the deltas the handlers added
    shownInCycle,             \* per threshold, showBreak broadcasts since the last reset
    latchAtReset,             \* the latch the last reset found (0 before the first reset)
    carried,                  \* productiveAccumulated when the open streak began (else 0)
    sinceNudge,               \* what focus changes closed since the last getBackToWork
    recordedAt,               \* per domain, when the last writer that added time ran
    \* ---- content.js: one page
    currentDomain, baseDomainTimeMs,
    load,                     \* the getDomainTime request of loadDomainInfo
    hidden,                   \* document.hidden
    lastActivity, isCounting, activityInterval, unsentAccumMs,
    timers,                   \* history: the live 1 s intervals that startCounting set
    countedMs,                \* history: the time the ticks counted
    sentMs,                   \* history: the sum of the deltaMs of the addDomainTime messages
    breaks,                   \* the startBreak calls: their timers, banner and messages
    breakCount                \* history: startBreak calls so far

activeVars == <<activeDomain, activeCategory, activeStart>>
streakVars == <<productiveSessionStart, productiveAccumulated, distractingStart,
                sinceNudge, carried>>
latchVars == <<lastShownBreakThreshold, shownInCycle, latchAtReset>>
statsVars == <<domainStats, credited, recordedAt>>
countVars == <<focusCount, addCount>>

trackerVars == <<activeVars, streakVars, latchVars, statsVars, countVars,
                 storedProductiveAccumulated, focus, addReq, tick>>

pageVars == <<currentDomain, baseDomainTimeMs, load>>
monitorVars == <<hidden, lastActivity, isCounting, activityInterval, unsentAccumMs,
                 timers, countedMs, sentMs>>
breakVars == <<breaks, breakCount>>
contentVars == <<pageVars, monitorVars, breakVars>>

vars == <<clock, sent, classified, boot, trackerVars, contentVars>>

----------------------------------------------------------------------------
(* Bounds of the model *)

T0 == 1                     \* Date.now() when the service worker starts
MaxHours == 2               \* Spec: the clock stops MaxHours after T0
MaxFocusChanges == 2        \* Spec: handleTabChange calls over a run
MaxFocus == 2               \* StatsSpec: handleTabChange calls in flight at once
MaxAdd == 1                 \* StatsSpec: addDomainTime handlers in flight at once
MaxStatsFocusChanges == 2   \* StatsSpec: handleTabChange calls over a run
MaxStatsAdds == 1           \* StatsSpec: addDomainTime requests accepted over a run
MaxStatsHours == 1          \* StatsSpec: the clock stops MaxStatsHours after T0
MaxNudgeFocusChanges == 3   \* NudgeSpec: handleTabChange calls over a run
MaxBothFocusChanges == 2    \* BothSpec: handleTabChange calls over a run
MaxBothAdds == 1            \* BothSpec: addDomainTime batches accepted over a run
MaxBothBatches == 1         \* BothSpec: the clock stops MaxBothBatches * BATCH_MS after T0
MaxCountTicks == 2          \* CountSpec: ticks that count time, per page load
MaxCountAdds == 1           \* CountSpec: addDomainTime batches accepted over a run
MaxCountGaps == 1           \* CountSpec: the clock stops MaxCountGaps jumps past the inactivity timeout after T0
MaxReconcileTicks == 1      \* ReconcileSpec: ticks that count time, per page load
MaxReconcileAdds == 2       \* ReconcileSpec: addDomainTime batches accepted over a run
MaxReconcileGaps == 1       \* ReconcileSpec: the clock stops MaxReconcileGaps jumps past the reset gap after T0
MaxCountdownBreaks == 1     \* CountdownSpec: startBreak calls over a run
MaxCountdownClicks == 2     \* CountdownSpec: clicks on the close button of a banner
MaxSupersedeBreaks == 2     \* SupersedeSpec: startBreak calls over a run
MaxSupersedeClicks == 1     \* SupersedeSpec: pending timeouts of handleEndEarly per banner
MaxLifecycleBreaks == 2     \* LifecycleSpec: startBreak calls over a run
MaxLifecycleClicks == 1     \* LifecycleSpec: pending timeouts of handleEndEarly per banner
MaxBoots == 1
MaxCarryFocusChanges == 3
MaxCarryHours == 1
MaxRefuseAdds == 2
MaxRefuseHours == 1
MaxLiveFocusChanges == 2
MaxLiveHours == 2
MaxFailFocusChanges == 3
MaxFailHours == 2
MaxStreakFocusChanges == 3
MaxStreakHours == 2
MaxNudgeHours == 2          \* NudgeSpec: the clock stops MaxNudgeHours after T0
MaxRaceFocusChanges == 3    \* RaceSpec: handleTabChange calls over a run
MaxRaceHours == 1           \* RaceSpec: the clock stops MaxRaceHours after T0
MaxSerialFocusChanges == 2  \* SerialSpec: handleTabChange calls over a run
MaxSerialAdds == 2          \* SerialSpec: addDomainTime requests accepted over a run
MaxSerialGaps == 1          \* SerialSpec: the clock stops MaxSerialGaps reset gaps (and 1 ms) after T0

MaxMonitorGaps == 2          \* MonitorSpec: the clock stops MaxMonitorGaps inactivity timeouts (and 1 ms) after T0
MaxCountedTicks == 17       \* MonitorSpec: ticks that count time, per page load
MaxBreaks == 2              \* BreakSpec: startBreak calls over a run
MaxClicks == 2              \* BreakSpec: pending timeouts of handleEndEarly per banner

MaxUrlLen == 3              \* ClassifySpec: characters of a URL after the scheme
MaxPatterns == 1            \* ClassifySpec: patterns of a category

MaxPageFocusChanges == 2    \* PageSpec: handleTabChange calls over a run
MaxPageAdds == 1            \* PageSpec: addDomainTime requests accepted over a run
MaxPageGaps == 1            \* PageSpec: the clock stops MaxPageGaps reset gaps (and 1 ms) after T0

(* Program constants *)

Minute == 60 * 1000
Hour == 60 * Minute
GET_BACK_THRESHOLD == 15 * 60 * 1000
BREAK_THRESHOLDS == <<4 * 60 * 60 * 1000, 3 * 60 * 60 * 1000, 2 * 60 * 60 * 1000>>
RESET_GAP_MS == 30 * 60 * 1000
INACTIVITY_MS == 60 * 1000
TICK_MS == 1000
BATCH_MS == 15 * 1000
PRE_COUNT == 3

(* The steps of the clock *)

Jumps == {Hour}
StatsJumps == {Hour}
SerialJumps == {RESET_GAP_MS, RESET_GAP_MS + 1}

Min(a, b) == IF a < b THEN a ELSE b

----------------------------------------------------------------------------
(* URLs and the classifier.  A URL is a sequence of characters; ":" stands *)
(* for the scheme and its separator ("https://").                          *)

NullCat == "null"
NullDomain == <<>>
NoTab == <<>>          \* no tab, or a tab without url

UrlValid(url) == Len(url) >= 2 /\ url[1] = ":"

SlashAt(url) ==
    IF \E i \in 2..Len(url) : url[i] = "/"
    THEN CHOOSE i \in 2..Len(url) : url[i] = "/" /\ \A j \in 2..(i - 1) : url[j] # "/"
    ELSE Len(url) + 1

hostname(url) == SubSeq(url, 2, SlashAt(url) - 1)

pathname(url) ==
    IF SlashAt(url) > Len(url) THEN <<"/">> ELSE SubSeq(url, SlashAt(url), Len(url))

Includes(s, p) ==
    \E i \in 0..(Len(s) - Len(p)) : SubSeq(s, i + 1, i + Len(p)) = p

DEFAULT_CATEGORY_MAP ==
    << [cat |-> "social",     patterns |-> << <<"y">> >>],
       [cat |-> "games",      patterns |-> << <<"r">> >>],
       [cat |-> "school",     patterns |-> << <<"c">> >>],
       [cat |-> "productive", patterns |-> << <<"g">>, <<"c">> >>] >>

PatternHits(url, map) ==
    { ij \in { <<i, j>> : i \in DOMAIN map, j \in 1..3 } :
        /\ ij[2] \in DOMAIN map[ij[1]].patterns
        /\ LET p == map[ij[1]].patterns[ij[2]]
               host == hostname(url) \o pathname(url)
           IN  p # <<>> /\ (Includes(host, p) \/ Includes(url, p)) }

getCategoryLastMatch(url, map) ==
    IF ~UrlValid(url) THEN "other"
    ELSE LET hits == PatternHits(url, map)
         IN  IF hits = {} THEN "other"
             ELSE LET last == CHOOSE a \in hits : \A b \in hits :
                                  a[1] > b[1] \/ (a[1] = b[1] /\ a[2] >= b[2])
                  IN  map[last[1]].cat

getCategoryUnparsed(url, map) ==
    LET hits == PatternHits(url, map)
    IN  IF hits = {} THEN "other"
        ELSE LET first == CHOOSE a \in hits : \A b \in hits :
                              a[1] < b[1] \/ (a[1] = b[1] /\ a[2] <= b[2])
             IN  map[first[1]].cat

getCategoryForUrl(url, map) ==
    IF ~UrlValid(url) THEN "other"
    ELSE LET hits == PatternHits(url, map)
         IN  IF hits = {} THEN "other"
             ELSE LET first == CHOOSE a \in hits : \A b \in hits :
                                   a[1] < b[1] \/ (a[1] = b[1] /\ a[2] <= b[2])
                  IN  map[first[1]].cat

loadPrefs == [categoryMap |-> DEFAULT_CATEGORY_MAP]

\* the arguments of a call of getCategoryForUrl: texts over a small alphabet, with the
\* scheme in front of a host (parseable) or without it; maps of up to two categories, in either
\* order, the patterns over the same alphabet, the empty pattern among them
UrlChars == {"x", "y", "/"}
Texts(n) == UNION { [1..k -> UrlChars] : k \in 0..n }
ClassifyUrls ==
    Texts(MaxUrlLen)
    \cup { <<":">> \o t : t \in { u \in Texts(MaxUrlLen) : u # <<>> /\ u[1] # "/" } }
ClassifyPatterns == { <<>>, <<"x">>, <<"x", "/", "y">> }
PatternLists == UNION { [1..k -> ClassifyPatterns] : k \in 0..MaxPatterns }
ClassifyMaps ==
    { <<>> }
    \cup { << [cat |-> c, patterns |-> l] >> : c \in {"A", "B"}, l \in PatternLists }
    \cup { << [cat |-> c[1], patterns |-> l1], [cat |-> c[2], patterns |-> l2] >> :
             c \in { <<"A", "B">>, <<"B", "A">> }, l1 \in PatternLists, l2 \in PatternLists }

NotClassified == [url |-> <<>>, map |-> <<>>, category |-> NullCat]

Tabs == { <<":", "g">>, <<":", "y">> }
Domains == { hostname(u) : u \in Tabs }

\* tabs of every category of the default map, and one of none ("other")
StreakTabs == Tabs \cup { <<":", "c">>, <<":", "r">>, <<":", "o">> }

\* the keys the domainStats map can get
StoredDomains == { hostname(u) : u \in StreakTabs }

----------------------------------------------------------------------------
(* chrome.storage.local: domainStats *)

NoEntry == [present |-> FALSE, time |-> 0, category |-> NullCat, lastActive |-> 0]

IdleFocus == [pc |-> "idle", now |-> 0, delta |-> 0, tab |-> NoTab,
              dom |-> NullDomain, cat |-> NullCat, map |-> [d \in StoredDomains |-> NoEntry]]

IdleAdd == [pc |-> "idle", domain |-> NullDomain, delta |-> 0,
            map |-> [d \in StoredDomains |-> NoEntry], entry |-> NoEntry]

IdleBoot == [pc |-> "idle", productiveAccumulated |-> 0, count |-> 0]

IdleTick == [pc |-> "idle", now |-> 0, productiveDuration |-> 0, lastShown |-> 0]

FocusSlots == 1..MaxFocus
AddSlots == 1..MaxAdd

BreakIds == 1..MaxBreaks

NoLoad == [pc |-> "none", time |-> 0, lastActive |-> 0, recordedAt |-> 0]

\* a startBreak call: its three interval timers, the pending timeouts of handleEndEarly,
\* the pending timeouts that fade and remove its banner, its countdowns, its banner, and
\* (history) what it sent, whether a later call replaced its banner and whether a
\* timeout of its own took its banner out of the document
NoBreak == [preInterval |-> FALSE, interval |-> FALSE, endTimer |-> FALSE, endEarly |-> 0,
            fade |-> FALSE, removals |-> 0, removed |-> FALSE,
            durationMs |-> 0, preCount |-> 0, remaining |-> 0, endCount |-> 0,
            attached |-> FALSE, closeBtn |-> FALSE,
            started |-> 0, ended |-> 0, superseded |-> FALSE, late |-> 0]

Msg(action, arg) == [action |-> action, arg |-> arg]

Init ==
    /\ clock = T0
    /\ activeDomain = NullDomain
    /\ activeCategory = NullCat
    /\ activeStart = T0
    /\ productiveSessionStart = 0
    /\ productiveAccumulated = 0
    /\ distractingStart = 0
    /\ domainStats = [d \in StoredDomains |-> NoEntry]
    /\ lastShownBreakThreshold = 0
    /\ storedProductiveAccumulated = 0
    /\ focus = [h \in FocusSlots |-> IdleFocus]
    /\ addReq = [a \in AddSlots |-> IdleAdd]
    /\ focusCount = 0
    /\ addCount = 0
    /\ tick = IdleTick
    /\ sent = <<>>
    /\ classified = NotClassified
    /\ boot = IdleBoot
    /\ credited = [d \in StoredDomains |-> 0]
    /\ shownInCycle = [i \in DOMAIN BREAK_THRESHOLDS |-> 0]
    /\ latchAtReset = 0
    /\ carried = 0
    /\ sinceNudge = "never"
    /\ recordedAt = [d \in StoredDomains |-> 0]
    /\ currentDomain = NullDomain
    /\ baseDomainTimeMs = 0
    /\ load = NoLoad
    /\ hidden = FALSE
    /\ lastActivity = T0
    /\ isCounting = FALSE
    /\ activityInterval = FALSE
    /\ timers = 0
    /\ unsentAccumMs = 0
    /\ countedMs = 0
    /\ sentMs = 0
    /\ breaks = [i \in BreakIds |-> NoBreak]
    /\ breakCount = 0

----------------------------------------------------------------------------
(* handleTabChange(tab), background.js 65-110.  Its awaits: loadPrefs (71), *)
(* the get and the set of saveDomainTime (55, 61), loadPrefs (101).         *)

LowestIdleFocus(h) ==
    /\ focus[h].pc = "idle"
    /\ \A k \in FocusSlots : k < h => focus[k].pc # "idle"

\* an update that keeps the domain of the interval just closed when no tab is in focus
UpdateActiveTabKeepingDomain(h, tab, hnow) ==
    IF tab = NoTab
    THEN /\ activeStart' = hnow
         /\ focus' = [focus EXCEPT ![h] = IdleFocus]
         /\ UNCHANGED <<activeDomain, activeCategory>>
    ELSE /\ activeDomain' = hostname(tab)
         /\ focus' = [focus EXCEPT ![h] =
                          [IdleFocus EXCEPT !.pc = "prefs2", !.now = hnow, !.tab = tab]]
         /\ UNCHANGED <<activeCategory, activeStart>>

\* lines 91-103, up to the await of loadPrefs: replace the active tab info
UpdateActiveTab(h, tab, hnow) ==
    IF tab = NoTab
    THEN /\ activeDomain' = NullDomain
         /\ activeCategory' = NullCat
         /\ activeStart' = hnow
         /\ focus' = [focus EXCEPT ![h] = IdleFocus]
    ELSE /\ activeDomain' = hostname(tab)
         /\ focus' = [focus EXCEPT ![h] =
                          [IdleFocus EXCEPT !.pc = "prefs2", !.now = hnow, !.tab = tab]]
         /\ UNCHANGED <<activeCategory, activeStart>>

\* a streak update that leaves a distraction streak open when a productive interval closes
UpdateStreaksKeepingDistraction(cat, delta, hnow) ==
    IF cat \in {"productive", "school"}
    THEN /\ productiveSessionStart' =
                IF productiveSessionStart = 0 THEN activeStart ELSE productiveSessionStart
         /\ productiveAccumulated' = productiveAccumulated + delta
         /\ carried' = IF productiveSessionStart = 0 THEN productiveAccumulated ELSE carried
         /\ sinceNudge' = IF sinceNudge = "never" THEN "never" ELSE "prod"
         /\ UNCHANGED distractingStart
    ELSE IF cat \in {"social", "games", "other"}
    THEN /\ productiveSessionStart' = 0
         /\ distractingStart' =
                IF distractingStart = 0 THEN hnow - delta ELSE distractingStart
         /\ sinceNudge' = CASE sinceNudge = "none" -> "dist"
                            [] sinceNudge = "prod" -> "prodDist"
                            [] OTHER -> sinceNudge
         /\ carried' = 0
         /\ UNCHANGED productiveAccumulated
    ELSE UNCHANGED streakVars

\* a streak update that restarts the distraction streak at every distracting interval
UpdateStreaksRestartingDistraction(cat, delta, hnow) ==
    IF cat \in {"productive", "school"}
    THEN /\ productiveSessionStart' =
                IF productiveSessionStart = 0 THEN activeStart ELSE productiveSessionStart
         /\ productiveAccumulated' = productiveAccumulated + delta
         /\ carried' = IF productiveSessionStart = 0 THEN productiveAccumulated ELSE carried
         /\ distractingStart' = 0
         /\ sinceNudge' = IF sinceNudge = "never" THEN "never" ELSE "prod"
    ELSE IF cat \in {"social", "games", "other"}
    THEN /\ productiveSessionStart' = 0
         /\ distractingStart' = hnow - delta
         /\ sinceNudge' = CASE sinceNudge = "none" -> "dist"
                            [] sinceNudge = "prod" -> "prodDist"
                            [] OTHER -> sinceNudge
         /\ carried' = 0
         /\ UNCHANGED productiveAccumulated
    ELSE UNCHANGED streakVars

\* a streak update that starts the accumulated time afresh when the streak breaks
UpdateStreaksResettingAccumulated(cat, delta, hnow) ==
    IF cat \in {"productive", "school"}
    THEN /\ productiveSessionStart' =
                IF productiveSessionStart = 0 THEN activeStart ELSE productiveSessionStart
         /\ productiveAccumulated' = productiveAccumulated + delta
         /\ carried' = IF productiveSessionStart = 0 THEN productiveAccumulated ELSE carried
         /\ distractingStart' = 0
         /\ sinceNudge' = IF sinceNudge = "never" THEN "never" ELSE "prod"
    ELSE IF cat \in {"social", "games", "other"}
    THEN /\ productiveSessionStart' = 0
         /\ distractingStart' =
                IF distractingStart = 0 THEN hnow - delta ELSE distractingStart
         /\ sinceNudge' = CASE sinceNudge = "none" -> "dist"
                            [] sinceNudge = "prod" -> "prodDist"
                            [] OTHER -> sinceNudge
         /\ carried' = 0
         /\ productiveAccumulated' = 0
    ELSE UNCHANGED streakVars

\* lines 75-88: the streak update for the interval just closed
UpdateStreaks(cat, delta, hnow) ==
    IF cat \in {"productive", "school"}
    THEN /\ productiveSessionStart' =
                IF productiveSessionStart = 0 THEN activeStart ELSE productiveSessionStart
         /\ productiveAccumulated' = productiveAccumulated + delta
         /\ carried' = IF productiveSessionStart = 0 THEN productiveAccumulated ELSE carried
         /\ distractingStart' = 0
         /\ sinceNudge' = IF sinceNudge = "never" THEN "never" ELSE "prod"
    ELSE IF cat \in {"social", "games", "other"}
    THEN /\ productiveSessionStart' = 0
         /\ distractingStart' =
                IF distractingStart = 0 THEN hnow - delta ELSE distractingStart
         /\ sinceNudge' = CASE sinceNudge = "none" -> "dist"
                            [] sinceNudge = "prod" -> "prodDist"
                            [] OTHER -> sinceNudge
         /\ carried' = 0
         /\ UNCHANGED productiveAccumulated
    ELSE UNCHANGED streakVars

\* lines 66-71 (or 66-68, 91-101 when there is no interval to close)
HandleTabChange(h, tab, maxCalls) ==
    /\ LowestIdleFocus(h)
    /\ focusCount < maxCalls
    /\ focusCount' = focusCount + 1
    /\ IF activeDomain # NullDomain /\ activeStart # 0
       THEN /\ focus' = [focus EXCEPT ![h] =
                            [IdleFocus EXCEPT !.pc = "prefs1", !.now = clock,
                                              !.delta = clock - activeStart, !.tab = tab]]
            /\ UNCHANGED activeVars
       ELSE UpdateActiveTab(h, tab, clock)
    /\ sent' = <<>>
    /\ UNCHANGED <<clock, classified, boot, contentVars, streakVars, latchVars, statsVars, addCount,
                   storedProductiveAccumulated, addReq, tick>>

\* lines 72-73 and 53-55: loadPrefs is back; the category; saveDomainTime up to its get
\* (a missing domain returns at once, and the handler goes on to lines 75-101)
TabChangeSave(h) ==
    /\ focus[h].pc = "prefs1"
    /\ LET cat == IF activeCategory # NullCat THEN activeCategory
                  ELSE getCategoryForUrl(activeDomain, loadPrefs.categoryMap)
       IN  IF activeDomain = NullDomain
           THEN /\ UpdateStreaks(cat, focus[h].delta, focus[h].now)
                /\ UpdateActiveTab(h, focus[h].tab, focus[h].now)
           ELSE /\ focus' = [focus EXCEPT ![h].pc = "get", ![h].cat = cat,
                                          ![h].dom = activeDomain, ![h].map = domainStats]
                /\ UNCHANGED <<activeVars, streakVars>>
    /\ sent' = <<>>
    /\ UNCHANGED <<clock, classified, boot, contentVars, latchVars, statsVars, countVars,
                   storedProductiveAccumulated, addReq, tick>>

\* lines 56-60: the entry saveDomainTime writes back
SavedEntry(old, category, deltaMs) ==
    LET entry == IF old.present THEN old
                 ELSE [NoEntry EXCEPT !.present = TRUE,
                                      !.category = IF category # NullCat THEN category
                                                   ELSE "other"]
    IN  [entry EXCEPT !.time = entry.time + deltaMs,
                      !.category = IF category # NullCat THEN category ELSE entry.category]

\* lines 56-61: the get is back; modify the map read and issue the set of the whole map
TabChangeWrite(h) ==
    /\ focus[h].pc = "get"
    /\ LET d == focus[h].dom
           map == [focus[h].map EXCEPT
                      ![d] = SavedEntry(focus[h].map[d], focus[h].cat, focus[h].delta)]
       IN  /\ domainStats' = map
           /\ focus' = [focus EXCEPT ![h].pc = "set", ![h].map = map]
           /\ credited' = [credited EXCEPT ![d] = @ + focus[h].delta]
           /\ recordedAt' = IF focus[h].delta > 0
                            THEN [recordedAt EXCEPT ![d] = clock] ELSE recordedAt
    /\ sent' = <<>>
    /\ UNCHANGED <<clock, classified, boot, contentVars, activeVars, streakVars, latchVars, countVars,
                   storedProductiveAccumulated, addReq, tick>>

\* line 73: the get or the set of saveDomainTime is rejected; nothing is written, the
\* rejection leaves saveDomainTime and, with no try around line 73, handleTabChange too
TabChangeSaveFails(h) ==
    /\ focus[h].pc = "get"
    /\ focus' = [focus EXCEPT ![h] = IdleFocus]
    /\ sent' = <<>>
    /\ UNCHANGED <<clock, classified, boot, contentVars, activeVars, streakVars, latchVars, statsVars, countVars,
                   storedProductiveAccumulated, addReq, tick>>

\* lines 75-101: the set is back; the streaks, then the new active tab up to loadPrefs
TabChangeStreaks(h) ==
    /\ focus[h].pc = "set"
    /\ UpdateStreaks(focus[h].cat, focus[h].delta, focus[h].now)
    /\ UpdateActiveTab(h, focus[h].tab, focus[h].now)
    /\ sent' = <<>>
    /\ UNCHANGED <<clock, classified, boot, contentVars, latchVars, statsVars, countVars,
                   storedProductiveAccumulated, addReq, tick>>

\* lines 102-109: loadPrefs is back; the category and start of the new interval
TabChangeDone(h) ==
    /\ focus[h].pc = "prefs2"
    /\ activeCategory' = getCategoryForUrl(focus[h].tab, loadPrefs.categoryMap)
    /\ activeStart' = focus[h].now
    /\ focus' = [focus EXCEPT ![h] = IdleFocus]
    /\ sent' = << Msg("activeCategory", activeCategory') >>
    /\ UNCHANGED <<clock, classified, boot, contentVars, activeDomain, streakVars, latchVars, statsVars, countVars,
                   storedProductiveAccumulated, addReq, tick>>

----------------------------------------------------------------------------
(* onMessage addDomainTime, background.js 223-248.  Its awaits: the get    *)
(* (230), loadPrefs (237), the set (242).                                  *)

AddDomains == Domains \cup {NullDomain}
AddDeltas == {-1000, 0, 1000, 15000}

\* the values msg.deltaMs can hold: a number, NaN, or nothing (undefined)
JsNumber(n) == [type |-> "number", value |-> n]
JsNaN == [type |-> "nan", value |-> 0]
JsUndefined == [type |-> "undefined", value |-> 0]
AddDeltaMs == { JsNumber(n) : n \in AddDeltas } \cup {JsNaN, JsUndefined}

\* line 227: Number(msg.deltaMs) || 0; Number(undefined) is NaN, and NaN || 0 is 0
NumberOrZero(v) == IF v.type = "number" THEN v.value ELSE 0

LowestIdleAdd(a) ==
    /\ addReq[a].pc = "idle"
    /\ \A k \in AddSlots : k < a => addReq[k].pc # "idle"

\* a refusal that lets a delta of 0 through
AddRefusedNegativeOnly(domain, delta) == domain = NullDomain \/ delta < 0

\* lines 226-228: a request without a domain or with a delta <= 0 is refused
AddRefused(domain, delta) == domain = NullDomain \/ delta <= 0

\* lines 226-230: the request arrives; refuse it, or issue the get
AddDomainTime(a, domain, deltaMs, maxRequests) ==
    /\ LowestIdleAdd(a)
    /\ IF AddRefused(domain, NumberOrZero(deltaMs))
       THEN /\ sent' = << Msg("response", FALSE) >>
            /\ UNCHANGED <<addReq, addCount>>
       ELSE /\ addCount < maxRequests
            /\ addReq' = [addReq EXCEPT ![a] =
                             [IdleAdd EXCEPT !.pc = "get", !.domain = domain,
                                             !.delta = NumberOrZero(deltaMs),
                                             !.map = domainStats]]
            /\ addCount' = addCount + 1
            /\ sent' = <<>>
    /\ UNCHANGED <<clock, classified, boot, contentVars, activeVars, streakVars, latchVars, statsVars, focusCount,
                   storedProductiveAccumulated, focus, tick>>

\* lines 231-234: the entry with the delta added and lastActive set
AddedEntryOverwriting(old, delta, now) ==
    LET entry == IF old.present THEN old ELSE [NoEntry EXCEPT !.present = TRUE]
    IN  [entry EXCEPT !.time = delta, !.lastActive = now]

AddedEntry(old, delta, now) ==
    LET entry == IF old.present THEN old ELSE [NoEntry EXCEPT !.present = TRUE]
    IN  [entry EXCEPT !.time = entry.time + delta, !.lastActive = now]

\* lines 231-237: the get is back; build the entry, then await loadPrefs
AddModify(a) ==
    /\ addReq[a].pc = "get"
    /\ addReq' = [addReq EXCEPT
                     ![a].pc = "prefs",
                     ![a].entry = AddedEntry(addReq[a].map[addReq[a].domain],
                                             addReq[a].delta, clock)]
    /\ sent' = <<>>
    /\ UNCHANGED <<clock, classified, boot, contentVars, activeVars, streakVars, latchVars, statsVars, countVars,
                   storedProductiveAccumulated, focus, tick>>

\* lines 238-242: loadPrefs is back; the category if none, then the set of the whole map
AddWrite(a) ==
    /\ addReq[a].pc = "prefs"
    /\ LET d == addReq[a].domain
           cat == getCategoryForUrl(<<":">> \o d, loadPrefs.categoryMap)
           entry == [addReq[a].entry EXCEPT
                        !.category = IF @ # NullCat THEN @ ELSE cat]
           map == [addReq[a].map EXCEPT ![d] = entry]
       IN  /\ domainStats' = map
           /\ addReq' = [addReq EXCEPT ![a].pc = "set", ![a].entry = entry, ![a].map = map]
           /\ credited' = [credited EXCEPT ![d] = @ + addReq[a].delta]
           /\ recordedAt' = [recordedAt EXCEPT ![d] = entry.lastActive]
    /\ sent' = <<>>
    /\ UNCHANGED <<clock, classified, boot, contentVars, activeVars, streakVars, latchVars, countVars,
                   storedProductiveAccumulated, focus, tick>>

\* line 243: the set is back; answer {ok: true}
AddDone(a) ==
    /\ addReq[a].pc = "set"
    /\ addReq' = [addReq EXCEPT ![a] = IdleAdd]
    /\ sent' = << Msg("response", TRUE) >>
    /\ UNCHANGED <<clock, classified, boot, contentVars, activeVars, streakVars, latchVars, statsVars, countVars,
                   storedProductiveAccumulated, focus, tick>>

----------------------------------------------------------------------------
(* periodicChecks, background.js 113-145, run by setInterval every 30 s.   *)
(* Its awaits: the get of the latch (121), its set (127), the set of       *)
(* productiveAccumulated (144).  One call is in flight at a time: storage  *)
(* answers well within the 30 s period.                                    *)

\* a scan that does not look at the latch
ThresholdIgnoringLatch(productiveDuration, lastShown) ==
    LET hits == { i \in DOMAIN BREAK_THRESHOLDS :
                     productiveDuration >= BREAK_THRESHOLDS[i] }
    IN  IF hits = {} THEN 0
        ELSE BREAK_THRESHOLDS[CHOOSE i \in hits : \A j \in hits : i <= j]

\* a scan that shows a threshold again while the latch is at it
ThresholdAtLatch(productiveDuration, lastShown) ==
    LET hits == { i \in DOMAIN BREAK_THRESHOLDS :
                     productiveDuration >= BREAK_THRESHOLDS[i]
                     /\ lastShown <= BREAK_THRESHOLDS[i] }
    IN  IF hits = {} THEN 0
        ELSE BREAK_THRESHOLDS[CHOOSE i \in hits : \A j \in hits : i <= j]

\* a scan from the lowest threshold up
ThresholdLowestFirst(productiveDuration, lastShown) ==
    LET hits == { i \in DOMAIN BREAK_THRESHOLDS :
                     productiveDuration >= BREAK_THRESHOLDS[i]
                     /\ lastShown < BREAK_THRESHOLDS[i] }
    IN  IF hits = {} THEN 0
        ELSE BREAK_THRESHOLDS[CHOOSE i \in hits : \A j \in hits : i >= j]

\* lines 123-130: the first threshold of 4h, 3h, 2h that is reached and not yet shown,
\* 0 when there is none
ThresholdToShow(productiveDuration, lastShown) ==
    LET hits == { i \in DOMAIN BREAK_THRESHOLDS :
                     productiveDuration >= BREAK_THRESHOLDS[i]
                     /\ lastShown < BREAK_THRESHOLDS[i] }
    IN  IF hits = {} THEN 0
        ELSE BREAK_THRESHOLDS[CHOOSE i \in hits : \A j \in hits : i <= j]

ThresholdIndex(t) == CHOOSE i \in DOMAIN BREAK_THRESHOLDS : BREAK_THRESHOLDS[i] = t

\* lines 134-136: the distraction streak is at least GET_BACK_THRESHOLD old
NudgeDueUnguarded(now, start) == now - start >= GET_BACK_THRESHOLD

NudgeDue(now, start) == start # 0 /\ now - start >= GET_BACK_THRESHOLD

\* lines 133-144: the distraction check, then the set of productiveAccumulated
DistractionCheck(now) ==
    /\ IF NudgeDue(now, distractingStart)
       THEN /\ sent' = << Msg("getBackToWork", now - distractingStart) >>
            /\ distractingStart' = 0
            /\ sinceNudge' = "none"
       ELSE /\ sent' = <<>>
            /\ UNCHANGED <<distractingStart, sinceNudge>>
    /\ storedProductiveAccumulated' = productiveAccumulated
    /\ UNCHANGED <<productiveSessionStart, productiveAccumulated, carried>>

\* lines 114-121, or 114-117 and 133-144 when no productive session is open
PeriodicChecks ==
    /\ tick.pc = "idle"
    /\ IF productiveSessionStart # 0
       THEN /\ tick' = [pc |-> "latch", now |-> clock,
                        productiveDuration |->
                            productiveAccumulated + (clock - productiveSessionStart),
                        lastShown |-> lastShownBreakThreshold]
            /\ sent' = <<>>
            /\ UNCHANGED <<streakVars, storedProductiveAccumulated>>
       ELSE /\ tick' = [IdleTick EXCEPT !.pc = "persist", !.now = clock]
            /\ DistractionCheck(clock)
    /\ UNCHANGED <<clock, classified, boot, contentVars, activeVars, latchVars, statsVars, countVars, focus, addReq>>

\* lines 122-130: the latch read at line 121 is back; show a threshold and set the latch,
\* or go on to lines 133-144
TickThresholds ==
    /\ tick.pc = "latch"
    /\ LET t == ThresholdToShow(tick.productiveDuration, tick.lastShown)
       IN  IF t # 0
           THEN /\ sent' = << Msg("showBreak", t) >>
                /\ lastShownBreakThreshold' = t
                /\ shownInCycle' = [shownInCycle EXCEPT
                                       ![ThresholdIndex(t)] = Min(@ + 1, 2)]
                /\ tick' = [tick EXCEPT !.pc = "latchset"]
                /\ UNCHANGED <<streakVars, storedProductiveAccumulated, latchAtReset>>
           ELSE /\ DistractionCheck(tick.now)
                /\ tick' = [tick EXCEPT !.pc = "persist"]
                /\ UNCHANGED latchVars
    /\ UNCHANGED <<clock, classified, boot, contentVars, activeVars, statsVars, countVars, focus, addReq>>

\* lines 133-144: the set of the latch is back
TickDistraction ==
    /\ tick.pc = "latchset"
    /\ DistractionCheck(tick.now)
    /\ tick' = [tick EXCEPT !.pc = "persist"]
    /\ UNCHANGED <<clock, classified, boot, contentVars, activeVars, latchVars, statsVars, countVars, focus, addReq>>

\* line 145: the set of productiveAccumulated is back
TickDone ==
    /\ tick.pc = "persist"
    /\ tick' = IdleTick
    /\ sent' = <<>>
    /\ UNCHANGED <<clock, classified, boot, contentVars, activeVars, streakVars, latchVars, statsVars, countVars,
                   storedProductiveAccumulated, focus, addReq>>

\* a reset that answers without writing the latch
ResetBreakShownNoWrite ==
    /\ shownInCycle' = [i \in DOMAIN BREAK_THRESHOLDS |-> 0]
    /\ latchAtReset' = lastShownBreakThreshold
    /\ sent' = << Msg("response", TRUE) >>
    /\ UNCHANGED <<clock, classified, boot, contentVars, activeVars, streakVars, statsVars, countVars,
                   lastShownBreakThreshold, storedProductiveAccumulated, focus, addReq, tick>>

\* onMessage resetBreakShown, lines 213-215
ResetBreakShown ==
    /\ lastShownBreakThreshold' = 0
    /\ shownInCycle' = [i \in DOMAIN BREAK_THRESHOLDS |-> 0]
    /\ latchAtReset' = lastShownBreakThreshold
    /\ sent' = << Msg("response", TRUE) >>
    /\ UNCHANGED <<clock, classified, boot, contentVars, activeVars, streakVars, statsVars, countVars,
                   storedProductiveAccumulated, focus, addReq, tick>>

----------------------------------------------------------------------------
(* onInstalled (189-194) and onStartup (200-206).  The browser loads the   *)
(* script afresh before either fires (install, update, browser start), so  *)
(* the listener starts from the initial values of lines 12-22 with no      *)
(* handler in flight.                                                      *)

\* lines 12-22: the script is loaded
ScriptLoaded ==
    /\ activeDomain' = NullDomain
    /\ activeCategory' = NullCat
    /\ activeStart' = clock
    /\ productiveSessionStart' = 0
    /\ productiveAccumulated' = 0
    /\ distractingStart' = 0
    /\ sinceNudge' = "never"
    /\ carried' = 0
    /\ focus' = [h \in FocusSlots |-> IdleFocus]
    /\ addReq' = [a \in AddSlots |-> IdleAdd]
    /\ tick' = IdleTick

\* lines 12-22 and 190: the script is loaded, onInstalled fires and awaits loadPrefs
OnInstalled ==
    /\ boot.pc = "idle"
    /\ boot.count < MaxBoots
    /\ boot' = [boot EXCEPT !.pc = "installPrefs", !.count = @ + 1]
    /\ ScriptLoaded
    /\ sent' = <<>>
    /\ UNCHANGED <<clock, classified, contentVars, latchVars, statsVars, countVars,
                   storedProductiveAccumulated>>

\* line 191: loadPrefs is back; the set of productiveAccumulated: 0 and the latch: 0
InstallSet ==
    /\ boot.pc = "installPrefs"
    /\ boot' = [boot EXCEPT !.pc = "installSet"]
    /\ storedProductiveAccumulated' = 0
    /\ lastShownBreakThreshold' = 0
    /\ shownInCycle' = [i \in DOMAIN BREAK_THRESHOLDS |-> 0]
    /\ latchAtReset' = lastShownBreakThreshold
    /\ sent' = <<>>
    /\ UNCHANGED <<clock, classified, contentVars, activeVars, streakVars, statsVars, countVars,
                   focus, addReq, tick>>

\* lines 192-193: the set is back
InstallDone ==
    /\ boot.pc = "installSet"
    /\ boot' = [boot EXCEPT !.pc = "idle"]
    /\ productiveAccumulated' = 0
    /\ sent' = <<>>
    /\ UNCHANGED <<clock, classified, contentVars, activeVars, productiveSessionStart,
                   distractingStart, sinceNudge, carried, latchVars, statsVars, countVars,
                   storedProductiveAccumulated, focus, addReq, tick>>

\* lines 12-22 and 201: the script is loaded, onStartup fires and issues its get
OnStartup ==
    /\ boot.pc = "idle"
    /\ boot.count < MaxBoots
    /\ boot' = [pc |-> "startupGet",
                productiveAccumulated |-> storedProductiveAccumulated,
                count |-> boot.count + 1]
    /\ ScriptLoaded
    /\ sent' = <<>>
    /\ UNCHANGED <<clock, classified, contentVars, latchVars, statsVars, countVars,
                   storedProductiveAccumulated>>

\* line 202: the get is back; productiveAccumulated = s.productiveAccumulated || 0
StartupRestore ==
    /\ boot.pc = "startupGet"
    /\ boot' = [boot EXCEPT !.pc = "idle", !.productiveAccumulated = 0]
    /\ productiveAccumulated' = boot.productiveAccumulated
    /\ sent' = <<>>
    /\ UNCHANGED <<clock, classified, contentVars, activeVars, productiveSessionStart,
                   distractingStart, sinceNudge, carried, latchVars, statsVars, countVars,
                   storedProductiveAccumulated, focus, addReq, tick>>

Boot ==
    \/ OnInstalled
    \/ InstallSet
    \/ InstallDone
    \/ OnStartup
    \/ StartupRestore

\* an answer that reports success
SummarizeSucceeds == [ok |-> TRUE, error |-> ""]

\* line 280: the answer to a summarize request
SummarizeResponse == [ok |-> FALSE, error |-> "summarizer_removed"]

\* onMessage summarize, lines 277-284: the answer is sent, nothing else happens
Summarize ==
    /\ sent' = << Msg("summarize", SummarizeResponse) >>
    /\ UNCHANGED <<clock, classified, boot, trackerVars, contentVars>>

\* onMessage getSummary, lines 262-267: the stored domainStats and productiveAccumulated
\* (the runtime value when the stored one is missing or 0) are answered
GetSummary ==
    /\ sent' = << Msg("summary",
                      [domainStats |-> domainStats,
                       productiveAccumulated |->
                           IF storedProductiveAccumulated # 0
                           THEN storedProductiveAccumulated ELSE productiveAccumulated]) >>
    /\ UNCHANGED <<clock, classified, boot, trackerVars, contentVars>>

----------------------------------------------------------------------------
(* content.js: loadDomainInfo (183-201) and the getDomainTime handler of   *)
(* background.js (251-259).                                                *)

\* content.js 169-190: the content script starts on a page of this hostname and asks
\* for the domain's stored time
LoadDomainInfo(d) ==
    /\ load.pc \in {"none", "done", "nodomain"}
    /\ currentDomain' = d
    /\ baseDomainTimeMs' = 0
    /\ lastActivity' = clock
    /\ isCounting' = FALSE
    /\ activityInterval' = FALSE
    /\ timers' = 0
    /\ unsentAccumMs' = 0
    /\ countedMs' = 0
    /\ sentMs' = 0
    /\ breaks' = [i \in BreakIds |-> NoBreak]
    /\ IF d = NullDomain
       THEN load' = [NoLoad EXCEPT !.pc = "nodomain"] /\ sent' = <<>>
       ELSE load' = [NoLoad EXCEPT !.pc = "asked"] /\ sent' = << Msg("getDomainTime", d) >>
    /\ UNCHANGED <<clock, classified, boot, trackerVars, hidden, breakCount>>

\* background.js 252-254: the request arrives; issue the get
GetDomainTime ==
    /\ load.pc = "asked"
    /\ LET entry == domainStats[currentDomain]
       IN  load' = [pc |-> "read", time |-> entry.time, lastActive |-> entry.lastActive,
                    recordedAt |-> recordedAt[currentDomain]]
    /\ sent' = <<>>
    /\ UNCHANGED <<clock, classified, boot, trackerVars, currentDomain, baseDomainTimeMs, monitorVars,
                   breakVars>>

\* content.js 192-195: the stored time, or 0 when lastActive is more than RESET_GAP_MS ago
BaseAfterLoad(now, time, lastActive) ==
    IF now - lastActive > RESET_GAP_MS THEN 0 ELSE time

\* a reconciliation that also puts the stale total of the store to 0
LoadResponseResettingStore ==
    /\ load.pc = "read"
    /\ baseDomainTimeMs' = BaseAfterLoad(clock, load.time, load.lastActive)
    /\ domainStats' = IF clock - load.lastActive > RESET_GAP_MS
                      THEN [domainStats EXCEPT ![currentDomain].time = 0]
                      ELSE domainStats
    /\ load' = [load EXCEPT !.pc = "done"]
    /\ sent' = << Msg("domainTime", [time |-> load.time, lastActive |-> load.lastActive]) >>
    /\ UNCHANGED <<clock, classified, boot, activeVars, streakVars, latchVars, credited, recordedAt,
                   countVars, storedProductiveAccumulated, focus, addReq, tick,
                   currentDomain, monitorVars, breakVars>>

\* background.js 255-257 and content.js 191-199: the get is back, the answer is sent
\* and the callback of loadDomainInfo runs
LoadResponse ==
    /\ load.pc = "read"
    /\ baseDomainTimeMs' = BaseAfterLoad(clock, load.time, load.lastActive)
    /\ load' = [load EXCEPT !.pc = "done"]
    /\ sent' = << Msg("domainTime", [time |-> load.time, lastActive |-> load.lastActive]) >>
    /\ UNCHANGED <<clock, classified, boot, trackerVars, currentDomain, monitorVars, breakVars>>

PageLoad ==
    \/ \E d \in Domains : LoadDomainInfo(d)
    \/ GetDomainTime
    \/ LoadResponse

----------------------------------------------------------------------------
(* content.js 204-289: the activity monitor *)

\* the content script of the page has run
ScriptRunning == load.pc # "none"

MonitorJumps == {INACTIVITY_MS, INACTIVITY_MS + 1}

\* content.js 204-211: flushAccumulatedTime; the message is for currentDomain
FlushFullBatchOnly ==
    IF currentDomain = NullDomain \/ unsentAccumMs < BATCH_MS
    THEN /\ sent' = <<>>
         /\ UNCHANGED <<baseDomainTimeMs, unsentAccumMs, sentMs>>
    ELSE /\ sent' = << Msg("addDomainTime", unsentAccumMs) >>
         /\ sentMs' = sentMs + unsentAccumMs
         /\ baseDomainTimeMs' = baseDomainTimeMs + unsentAccumMs
         /\ unsentAccumMs' = 0

\* a flush that sends the unsent time and forgets to add it to baseDomainTimeMs
flushWithoutFold ==
    IF currentDomain = NullDomain \/ unsentAccumMs <= 0
    THEN /\ sent' = <<>>
         /\ UNCHANGED <<baseDomainTimeMs, unsentAccumMs, sentMs>>
    ELSE /\ sent' = << Msg("addDomainTime", unsentAccumMs) >>
         /\ sentMs' = sentMs + unsentAccumMs
         /\ unsentAccumMs' = 0
         /\ UNCHANGED baseDomainTimeMs

flushAccumulatedTime ==
    IF currentDomain = NullDomain \/ unsentAccumMs <= 0
    THEN /\ sent' = <<>>
         /\ UNCHANGED <<baseDomainTimeMs, unsentAccumMs, sentMs>>
    ELSE /\ sent' = << Msg("addDomainTime", unsentAccumMs) >>
         /\ sentMs' = sentMs + unsentAccumMs
         /\ baseDomainTimeMs' = baseDomainTimeMs + unsentAccumMs
         /\ unsentAccumMs' = 0

\* content.js 214-227: startCounting, but for the body of the interval
startCounting ==
    /\ IF isCounting
       THEN UNCHANGED <<isCounting, activityInterval, timers, lastActivity>>
       ELSE /\ isCounting' = TRUE
            /\ lastActivity' = clock
            /\ activityInterval' = TRUE
            /\ timers' = timers + 1
    /\ sent' = <<>>
    /\ UNCHANGED <<baseDomainTimeMs, unsentAccumMs, sentMs>>

\* content.js 230-236: stopCounting
stopCounting ==
    IF ~isCounting
    THEN /\ sent' = <<>>
         /\ UNCHANGED <<isCounting, activityInterval, timers, baseDomainTimeMs, unsentAccumMs, sentMs>>
    ELSE /\ isCounting' = FALSE
         /\ activityInterval' = FALSE
         /\ timers' = IF activityInterval THEN timers - 1 ELSE timers
         /\ flushAccumulatedTime

\* an interval that counts on a hidden page too
CountTickWhileHidden ==
    /\ ScriptRunning
    /\ activityInterval
    /\ countedMs < MaxCountedTicks * TICK_MS
    /\ countedMs' = countedMs + TICK_MS
    /\ IF currentDomain # NullDomain /\ unsentAccumMs + TICK_MS >= BATCH_MS
       THEN /\ sent' = << Msg("addDomainTime", unsentAccumMs + TICK_MS) >>
            /\ sentMs' = sentMs + unsentAccumMs + TICK_MS
            /\ baseDomainTimeMs' = baseDomainTimeMs + unsentAccumMs + TICK_MS
            /\ unsentAccumMs' = 0
       ELSE /\ unsentAccumMs' = unsentAccumMs + TICK_MS
            /\ sent' = <<>>
            /\ UNCHANGED <<baseDomainTimeMs, sentMs>>
    /\ UNCHANGED <<clock, classified, boot, trackerVars, currentDomain, load, hidden, lastActivity,
                   isCounting, activityInterval, timers, breakVars>>

\* an interval that flushes only once unsentAccumMs is past the batch size
CountTickFlushingPastBatch ==
    /\ ScriptRunning
    /\ activityInterval
    /\ countedMs < MaxCountedTicks * TICK_MS
    /\ IF hidden
       THEN /\ sent' = <<>>
            /\ UNCHANGED <<baseDomainTimeMs, unsentAccumMs, sentMs, countedMs>>
       ELSE /\ countedMs' = countedMs + TICK_MS
            /\ IF currentDomain # NullDomain /\ unsentAccumMs + TICK_MS > BATCH_MS
               THEN /\ sent' = << Msg("addDomainTime", unsentAccumMs + TICK_MS) >>
                    /\ sentMs' = sentMs + unsentAccumMs + TICK_MS
                    /\ baseDomainTimeMs' = baseDomainTimeMs + unsentAccumMs + TICK_MS
                    /\ unsentAccumMs' = 0
               ELSE /\ unsentAccumMs' = unsentAccumMs + TICK_MS
                    /\ sent' = <<>>
                    /\ UNCHANGED <<baseDomainTimeMs, sentMs>>
    /\ UNCHANGED <<clock, classified, boot, trackerVars, currentDomain, load, hidden, lastActivity,
                   isCounting, activityInterval, timers, breakVars>>

\* content.js 219-226: the interval of startCounting fires
CountTick ==
    /\ ScriptRunning
    /\ activityInterval
    /\ countedMs < MaxCountedTicks * TICK_MS
    /\ IF hidden
       THEN /\ sent' = <<>>
            /\ UNCHANGED <<baseDomainTimeMs, unsentAccumMs, sentMs, countedMs>>
       ELSE /\ countedMs' = countedMs + TICK_MS
            /\ IF currentDomain # NullDomain /\ unsentAccumMs + TICK_MS >= BATCH_MS
               THEN /\ sent' = << Msg("addDomainTime", unsentAccumMs + TICK_MS) >>
                    /\ sentMs' = sentMs + unsentAccumMs + TICK_MS
                    /\ baseDomainTimeMs' = baseDomainTimeMs + unsentAccumMs + TICK_MS
                    /\ unsentAccumMs' = 0
               ELSE /\ unsentAccumMs' = unsentAccumMs + TICK_MS
                    /\ sent' = <<>>
                    /\ UNCHANGED <<baseDomainTimeMs, sentMs>>
    /\ UNCHANGED <<clock, classified, boot, trackerVars, currentDomain, load, hidden, lastActivity,
                   isCounting, activityInterval, timers, breakVars>>

\* an input handler that sets a new interval at every input on a visible page
OnUserActivityUnguarded ==
    /\ ScriptRunning
    /\ lastActivity' = clock
    /\ IF ~hidden
       THEN isCounting' = TRUE /\ activityInterval' = TRUE /\ timers' = timers + 1
       ELSE UNCHANGED <<isCounting, activityInterval, timers>>
    /\ sent' = <<>>
    /\ UNCHANGED <<clock, classified, boot, trackerVars, pageVars, hidden, unsentAccumMs, countedMs, sentMs,
                   breakVars>>

\* content.js 250-254: onUserActivity
OnUserActivity ==
    /\ ScriptRunning
    /\ lastActivity' = clock
    /\ IF ~hidden /\ ~isCounting
       THEN isCounting' = TRUE /\ activityInterval' = TRUE /\ timers' = timers + 1
       ELSE UNCHANGED <<isCounting, activityInterval, timers>>
    /\ sent' = <<>>
    /\ UNCHANGED <<clock, classified, boot, trackerVars, pageVars, hidden, unsentAccumMs, countedMs, sentMs,
                   breakVars>>

\* content.js 262-267: the inactivity interval fires
InactivityCheck ==
    /\ ScriptRunning
    /\ isCounting
    /\ clock - lastActivity > INACTIVITY_MS
    /\ stopCounting
    /\ UNCHANGED <<clock, classified, boot, trackerVars, currentDomain, load, hidden, lastActivity, countedMs,
                   breakVars>>

\* content.js 270-277: the page becomes hidden or visible
VisibilityChange ==
    /\ ScriptRunning
    /\ hidden' = ~hidden
    /\ IF hidden'
       THEN stopCounting /\ UNCHANGED lastActivity
       ELSE IF clock - lastActivity <= INACTIVITY_MS
            THEN startCounting
            ELSE /\ sent' = <<>>
                 /\ UNCHANGED <<isCounting, activityInterval, timers, lastActivity,
                                baseDomainTimeMs, unsentAccumMs, sentMs>>
    /\ UNCHANGED <<clock, classified, boot, trackerVars, currentDomain, load, countedMs, breakVars>>

IdleStates == {"idle", "locked", "active"}

\* content.js 280-289: the idleState broadcast of the background arrives
IdleState(state) ==
    /\ ScriptRunning
    /\ IF state \in {"idle", "locked"}
       THEN stopCounting /\ UNCHANGED lastActivity
       ELSE IF clock - lastActivity <= INACTIVITY_MS
            THEN startCounting
            ELSE /\ sent' = <<>>
                 /\ UNCHANGED <<isCounting, activityInterval, timers, lastActivity,
                                baseDomainTimeMs, unsentAccumMs, sentMs>>
    /\ UNCHANGED <<clock, classified, boot, trackerVars, currentDomain, load, hidden, countedMs, breakVars>>

Monitor ==
    \/ CountTick
    \/ OnUserActivity
    \/ InactivityCheck
    \/ VisibilityChange
    \/ \E state \in IdleStates : IdleState(state)

----------------------------------------------------------------------------
(* content.js 465-601: the break banner *)

BreakDurations == {-1000, 0, 1, 1001}

\* content.js 519: the seconds of the active countdown
Seconds(durationMs) ==
    LET ceil == (durationMs + 999) \div 1000
    IN  IF ceil > 0 THEN ceil ELSE 0

\* a timer or timeout of the call is pending
Live(b) == b.preInterval \/ b.interval \/ b.endTimer \/ b.endEarly > 0

\* history: a message sent by a call whose banner a later call replaced
Late(b) == IF b.superseded THEN b.late + 1 ELSE b.late

\* content.js 465-488 and 598-601: startBreak; removeExistingBanner takes the banner
\* of the calls before out of the document
StartBreak(durationMs) ==
    /\ ScriptRunning
    /\ breakCount < MaxBreaks
    /\ breakCount' = breakCount + 1
    /\ breaks' = [i \in BreakIds |->
                    IF i = breakCount + 1
                    THEN [NoBreak EXCEPT !.preInterval = TRUE, !.preCount = PRE_COUNT,
                                         !.durationMs = durationMs, !.attached = TRUE]
                    ELSE IF i <= breakCount
                         THEN [breaks[i] EXCEPT !.attached = FALSE, !.superseded = TRUE]
                         ELSE breaks[i]]
    /\ sent' = <<>>
    /\ UNCHANGED <<clock, classified, boot, trackerVars, pageVars, monitorVars>>

\* a pre-start countdown that announces the break at each of its ticks
PreStartTickAnnouncingEach(i) ==
    /\ breaks[i].preInterval
    /\ IF breaks[i].preCount - 1 <= 0
       THEN breaks' = [breaks EXCEPT ![i] =
                   [@ EXCEPT !.preCount = @ - 1, !.preInterval = FALSE,
                             !.closeBtn = TRUE, !.started = @ + 1,
                             !.remaining = Seconds(breaks[i].durationMs),
                             !.interval = TRUE, !.late = Late(breaks[i])]]
       ELSE breaks' = [breaks EXCEPT ![i] =
                   [@ EXCEPT !.preCount = @ - 1, !.started = @ + 1,
                             !.late = Late(breaks[i])]]
    /\ sent' = << Msg("startBreakGlobal", breaks[i].durationMs) >>
    /\ UNCHANGED <<clock, classified, boot, trackerVars, pageVars, monitorVars, breakCount>>

\* a pre-start countdown whose count is one variable of the page: a tick of call i
\* lowers the count of every call that is in its pre-start countdown
PreStartTickSharedCount(i) ==
    /\ breaks[i].preInterval
    /\ breaks' = [j \in BreakIds |->
                    IF ~breaks[j].preInterval THEN breaks[j]
                    ELSE IF breaks[j].preCount - 1 <= 0
                    THEN [breaks[j] EXCEPT !.preCount = @ - 1, !.preInterval = FALSE,
                                           !.closeBtn = TRUE, !.started = @ + 1,
                                           !.remaining = Seconds(breaks[j].durationMs),
                                           !.interval = TRUE, !.late = Late(breaks[j])]
                    ELSE [breaks[j] EXCEPT !.preCount = @ - 1]]
    /\ sent' = IF breaks[i].preCount - 1 <= 0
               THEN << Msg("startBreakGlobal", breaks[i].durationMs) >>
               ELSE <<>>
    /\ UNCHANGED <<clock, classified, boot, trackerVars, pageVars, monitorVars, breakCount>>

\* content.js 488-522: preInterval fires; at 0 the active countdown starts
PreStartTick(i) ==
    /\ breaks[i].preInterval
    /\ IF breaks[i].preCount - 1 <= 0
       THEN /\ breaks' = [breaks EXCEPT ![i] =
                   [@ EXCEPT !.preCount = @ - 1, !.preInterval = FALSE,
                             !.closeBtn = TRUE, !.started = @ + 1,
                             !.remaining = Seconds(breaks[i].durationMs),
                             !.interval = TRUE, !.late = Late(breaks[i])]]
            /\ sent' = << Msg("startBreakGlobal", breaks[i].durationMs) >>
       ELSE /\ breaks' = [breaks EXCEPT ![i].preCount = @ - 1]
            /\ sent' = <<>>
    /\ UNCHANGED <<clock, classified, boot, trackerVars, pageVars, monitorVars, breakCount>>

\* content.js 522-538: the interval of the active countdown fires; at 0 the pre-end
\* countdown starts and the banner loses its close button
ActiveTick(i) ==
    /\ breaks[i].interval
    /\ IF breaks[i].remaining - 1 <= 0
       THEN breaks' = [breaks EXCEPT ![i] =
                [@ EXCEPT !.remaining = @ - 1, !.interval = FALSE, !.closeBtn = FALSE,
                          !.endCount = PRE_COUNT, !.endTimer = TRUE]]
       ELSE breaks' = [breaks EXCEPT ![i].remaining = @ - 1]
    /\ sent' = <<>>
    /\ UNCHANGED <<clock, classified, boot, trackerVars, pageVars, monitorVars, breakCount>>

\* content.js 538-558: endTimer fires; at 0 the break ends, and the timeout that fades
\* the banner is set
PreEndTick(i) ==
    /\ breaks[i].endTimer
    /\ IF breaks[i].endCount - 1 <= 0
       THEN /\ breaks' = [breaks EXCEPT ![i] =
                   [@ EXCEPT !.endCount = @ - 1, !.endTimer = FALSE, !.ended = @ + 1,
                             !.fade = TRUE, !.late = Late(breaks[i])]]
            /\ sent' = << Msg("endBreakGlobal", 0) >>
       ELSE /\ breaks' = [breaks EXCEPT ![i].endCount = @ - 1]
            /\ sent' = <<>>
    /\ UNCHANGED <<clock, classified, boot, trackerVars, pageVars, monitorVars, breakCount>>

\* a click on the close button that leaves the interval of the active countdown running
HandleEndEarlyKeepingInterval(i) ==
    /\ breaks[i].attached
    /\ breaks[i].closeBtn
    /\ breaks[i].endEarly < MaxClicks
    /\ breaks' = [breaks EXCEPT ![i].endEarly = @ + 1]
    /\ sent' = <<>>
    /\ UNCHANGED <<clock, classified, boot, trackerVars, pageVars, monitorVars, breakCount>>

\* content.js 563-565 and 576: a click on the close button of a banner in the document
HandleEndEarly(i) ==
    /\ breaks[i].attached
    /\ breaks[i].closeBtn
    /\ breaks[i].endEarly < MaxClicks
    /\ breaks' = [breaks EXCEPT ![i].interval = FALSE, ![i].endEarly = @ + 1]
    /\ sent' = <<>>
    /\ UNCHANGED <<clock, classified, boot, trackerVars, pageVars, monitorVars, breakCount>>

\* content.js 565-574: a timeout of handleEndEarly fires; it shows the end view, sets
\* the timeout that removes the banner and sends endBreakGlobal
EndEarlyTimeout(i) ==
    /\ breaks[i].endEarly > 0
    /\ breaks' = [breaks EXCEPT ![i] =
            [@ EXCEPT !.endEarly = @ - 1, !.closeBtn = FALSE, !.ended = @ + 1,
                      !.removals = @ + 1, !.late = Late(breaks[i])]]
    /\ sent' = << Msg("endBreakGlobal", 0) >>
    /\ UNCHANGED <<clock, classified, boot, trackerVars, pageVars, monitorVars, breakCount>>

\* a timeout that fades the banner and sets none to remove it
FadeTimeoutWithoutRemoval(i) ==
    /\ breaks[i].fade
    /\ breaks' = [breaks EXCEPT ![i].fade = FALSE]
    /\ sent' = <<>>
    /\ UNCHANGED <<clock, classified, boot, trackerVars, pageVars, monitorVars, breakCount>>

\* content.js 550-555: the timeout set at the natural end fires; the banner fades and
\* the timeout that removes it is set
FadeTimeout(i) ==
    /\ breaks[i].fade
    /\ breaks' = [breaks EXCEPT ![i].fade = FALSE, ![i].removals = @ + 1]
    /\ sent' = <<>>
    /\ UNCHANGED <<clock, classified, boot, trackerVars, pageVars, monitorVars, breakCount>>

\* content.js 553 and 572: banner.remove() of a timeout
RemoveTimeout(i) ==
    /\ breaks[i].removals > 0
    /\ breaks' = [breaks EXCEPT ![i] =
            [@ EXCEPT !.removals = @ - 1, !.attached = FALSE,
                      !.removed = @ \/ breaks[i].attached]]
    /\ sent' = <<>>
    /\ UNCHANGED <<clock, classified, boot, trackerVars, pageVars, monitorVars, breakCount>>

Break ==
    \/ \E durationMs \in BreakDurations : StartBreak(durationMs)
    \/ \E i \in BreakIds : PreStartTick(i)
    \/ \E i \in BreakIds : ActiveTick(i)
    \/ \E i \in BreakIds : PreEndTick(i)
    \/ \E i \in BreakIds : HandleEndEarly(i)
    \/ \E i \in BreakIds : EndEarlyTimeout(i)

\* background.js 36-50: a call of getCategoryForUrl (one a run)
Classify(url, map) ==
    /\ classified = NotClassified
    /\ classified' = [url |-> url, map |-> map, category |-> getCategoryForUrl(url, map)]
    /\ sent' = <<>>
    /\ UNCHANGED <<clock, boot, trackerVars, contentVars>>

\* time passes: Date.now() moves on by j, up to max
Advance(j, max) ==
    /\ clock + j <= max
    /\ clock' = clock + j
    /\ sent' = <<>>
    /\ UNCHANGED <<classified, boot, trackerVars, contentVars>>

----------------------------------------------------------------------------
(* The tab and window listeners (161-186, 200-206) call handleTabChange    *)
(* without awaiting it, so calls overlap.                                  *)

FocusChange(slots, maxCalls) ==
    \/ \E h \in slots, tab \in Tabs \cup {NoTab} : HandleTabChange(h, tab, maxCalls)
    \/ \E h \in slots : TabChangeSave(h)
    \/ \E h \in slots : TabChangeWrite(h)
    \/ \E h \in slots : TabChangeStreaks(h)
    \/ \E h \in slots : TabChangeDone(h)

AddRequest(slots, maxRequests) ==
    \/ \E a \in slots, d \in AddDomains, deltaMs \in AddDeltaMs :
           AddDomainTime(a, d, deltaMs, maxRequests)
    \/ \E a \in slots : AddModify(a)
    \/ \E a \in slots : AddWrite(a)
    \/ \E a \in slots : AddDone(a)

Scheduler ==
    \/ PeriodicChecks
    \/ TickThresholds
    \/ TickDistraction
    \/ TickDone
    \/ ResetBreakShown

\* no handler that writes domainStats is in flight
Quiescent ==
    /\ \A h \in FocusSlots : focus[h].pc = "idle"
    /\ \A a \in AddSlots : addReq[a].pc = "idle"

(* The threshold scheduler and the streaks it reads: focus changes, ticks  *)
(* and resets, hour by hour.                                               *)
Next ==
    \/ FocusChange({1}, MaxFocusChanges)
    \/ Scheduler
    \/ Summarize
    \/ \E j \in Jumps : Advance(j, T0 + MaxHours * Hour)

Spec == Init /\ [][Next]_vars

(* The writers of domainStats, overlapping: focus changes and              *)
(* addDomainTime requests that arrive while others are in flight.          *)
StatsNext ==
    \/ FocusChange(FocusSlots, MaxStatsFocusChanges)
    \/ AddRequest(AddSlots, MaxStatsAdds)
    \/ \E j \in StatsJumps : Advance(j, T0 + MaxStatsHours * Hour)

StatsSpec == Init /\ [][StatsNext]_vars

(* The distraction streak: focus changes and ticks, the latch never reset. *)
NudgeNext ==
    \/ FocusChange({1}, MaxNudgeFocusChanges)
    \/ PeriodicChecks
    \/ TickThresholds
    \/ TickDistraction
    \/ TickDone
    \/ \E j \in Jumps : Advance(j, T0 + MaxNudgeHours * Hour)

NudgeSpec == Init /\ [][NudgeNext]_vars

(* The streaks at a focus change: intervals of every category closed one   *)
(* after another.                                                          *)
StreakNext ==
    \/ \E tab \in StreakTabs \cup {NoTab} : HandleTabChange(1, tab, MaxStreakFocusChanges)
    \/ TabChangeSave(1)
    \/ TabChangeWrite(1)
    \/ TabChangeStreaks(1)
    \/ TabChangeDone(1)
    \/ \E j \in Jumps : Advance(j, T0 + MaxStreakHours * Hour)

StreakSpec == Init /\ [][StreakNext]_vars

(* addDomainTime requests, good and bad, one after another.                *)
RefuseNext ==
    \/ \E d \in AddDomains, deltaMs \in AddDeltaMs :
           AddDomainTime(1, d, deltaMs, MaxRefuseAdds)
    \/ AddModify(1)
    \/ AddWrite(1)
    \/ AddDone(1)
    \/ \E j \in Jumps : Advance(j, T0 + MaxRefuseHours * Hour)

RefuseSpec == Init /\ [][RefuseNext]_vars

(* The scheduler under fairness: setInterval (line 197) keeps starting     *)
(* ticks, and every await of a tick returns.                               *)
Ticks ==
    \/ PeriodicChecks
    \/ TickThresholds
    \/ TickDistraction
    \/ TickDone

LiveNext ==
    \/ FocusChange({1}, MaxLiveFocusChanges)
    \/ Ticks
    \/ \E j \in Jumps : Advance(j, T0 + MaxLiveHours * Hour)

LiveSpec == Init /\ [][LiveNext]_vars /\ WF_vars(Ticks)

(* The accumulated productive time over focus changes, ticks, an install   *)
(* and a startup.                                                          *)
CarryNext ==
    \/ FocusChange({1}, MaxCarryFocusChanges)
    \/ Ticks
    \/ Boot
    \/ \E j \in Jumps : Advance(j, T0 + MaxCarryHours * Hour)

CarrySpec == Init /\ [][CarryNext]_vars

(* Focus changes whose write to storage can fail.                          *)
FailNext ==
    \/ FocusChange({1}, MaxFailFocusChanges)
    \/ TabChangeSaveFails(1)
    \/ \E j \in Jumps : Advance(j, T0 + MaxFailHours * Hour)

FailSpec == Init /\ [][FailNext]_vars

(* Focus changes alone, their handlers overlapping.                         *)
RaceNext ==
    \/ FocusChange(FocusSlots, MaxRaceFocusChanges)
    \/ \E j \in StatsJumps : Advance(j, T0 + MaxRaceHours * Hour)

RaceSpec == Init /\ [][RaceNext]_vars

(* The writers of domainStats, one after another: a focus change or an     *)
(* addDomainTime request arrives only when no handler is in flight.        *)
SerialNext ==
    \/ Quiescent /\ \E tab \in Tabs \cup {NoTab} :
           HandleTabChange(1, tab, MaxSerialFocusChanges)
    \/ TabChangeSave(1)
    \/ TabChangeWrite(1)
    \/ TabChangeStreaks(1)
    \/ TabChangeDone(1)
    \/ Quiescent /\ \E d \in AddDomains, deltaMs \in AddDeltaMs :
           AddDomainTime(1, d, deltaMs, MaxSerialAdds)
    \/ AddModify(1)
    \/ AddWrite(1)
    \/ AddDone(1)
    \/ \E j \in SerialJumps : Advance(j, T0 + MaxSerialGaps * RESET_GAP_MS + 1)

SerialSpec == Init /\ [][SerialNext]_vars

(* A page that loads while its domain's time is recorded by the tracker    *)
(* and by a content script.                                                *)
PageNext ==
    \/ FocusChange({1}, MaxPageFocusChanges)
    \/ AddRequest({1}, MaxPageAdds)
    \/ PageLoad
    \/ \E j \in SerialJumps : Advance(j, T0 + MaxPageGaps * RESET_GAP_MS + 1)

PageSpec == Init /\ [][PageNext]_vars

(* The classifier on its own, over the URLs and maps above.                *)
ClassifyNext ==
    /\ classified = NotClassified
    /\ \E url \in ClassifyUrls, map \in ClassifyMaps : Classify(url, map)

ClassifySpec == Init /\ [][ClassifyNext]_vars

(* The activity monitor of a page.                                          *)
MonitorNext ==
    \/ \E d \in AddDomains : LoadDomainInfo(d)
    \/ Monitor
    \/ \E j \in MonitorJumps : Advance(j, T0 + MaxMonitorGaps * INACTIVITY_MS + 1)

MonitorSpec == Init /\ [][MonitorNext]_vars

(* The break banners of a page.                                            *)
BreakNext ==
    \/ \E d \in Domains : load.pc = "none" /\ LoadDomainInfo(d)
    \/ Break

BreakSpec == Init /\ [][BreakNext]_vars

(* A page whose domain is timed by both writers of domainStats: the tracker *)
(* at focus changes, and the page's content script, whose interval fires at *)
(* most once per TICK_MS that has passed since the last input event, and    *)
(* whose addDomainTime message the background receives at once.             *)
BatchArrives(maxRequests) ==
    /\ Len(sent) = 1
    /\ sent[1].action = "addDomainTime"
    /\ AddDomainTime(1, currentDomain, JsNumber(sent[1].arg), maxRequests)

BothNext ==
    \/ FocusChange({1}, MaxBothFocusChanges)
    \/ load.pc = "none" /\ \E d \in Domains : LoadDomainInfo(d)
    \/ OnUserActivity
    \/ countedMs + TICK_MS <= clock - lastActivity /\ CountTick
    \/ BatchArrives(MaxBothAdds)
    \/ AddModify(1)
    \/ AddWrite(1)
    \/ AddDone(1)
    \/ Advance(BATCH_MS, T0 + MaxBothBatches * BATCH_MS)

BothSpec == Init /\ [][BothNext]_vars

(* The activity monitor of a page whose batches the background persists,   *)
(* and that is loaded again: the load answer brings the persisted time.     *)
CountNext ==
    \/ LoadDomainInfo(<<"g">>)
    \/ GetDomainTime
    \/ LoadResponse
    \/ countedMs < MaxCountTicks * TICK_MS /\ CountTick
    \/ OnUserActivity
    \/ InactivityCheck
    \/ VisibilityChange
    \/ \E state \in IdleStates : IdleState(state)
    \/ BatchArrives(MaxCountAdds)
    \/ AddModify(1)
    \/ AddWrite(1)
    \/ AddDone(1)
    \/ Advance(INACTIVITY_MS + 1, T0 + MaxCountGaps * (INACTIVITY_MS + 1))

CountSpec == Init /\ [][CountNext]_vars

(* A page that is loaded again after a gap: the persisted time its own     *)
(* batches left is reconciled, read by the popup, and added to.            *)
ReconcileNext ==
    \/ LoadDomainInfo(<<"g">>)
    \/ GetDomainTime
    \/ LoadResponse
    \/ GetSummary
    \/ OnUserActivity
    \/ countedMs < MaxReconcileTicks * TICK_MS /\ CountTick
    \/ VisibilityChange
    \/ BatchArrives(MaxReconcileAdds)
    \/ AddModify(1)
    \/ AddWrite(1)
    \/ AddDone(1)
    \/ Advance(RESET_GAP_MS + 1, T0 + MaxReconcileGaps * (RESET_GAP_MS + 1))

ReconcileSpec == Init /\ [][ReconcileNext]_vars

(* The countdowns of a break banner, from the request to the end.          *)
CountdownNext ==
    \/ \E d \in Domains : load.pc = "none" /\ LoadDomainInfo(d)
    \/ \E durationMs \in BreakDurations :
           breakCount < MaxCountdownBreaks /\ StartBreak(durationMs)
    \/ \E i \in BreakIds : PreStartTick(i)
    \/ \E i \in BreakIds : ActiveTick(i)
    \/ \E i \in BreakIds : PreEndTick(i)
    \/ \E i \in BreakIds : breaks[i].endEarly < MaxCountdownClicks /\ HandleEndEarly(i)
    \/ \E i \in BreakIds : EndEarlyTimeout(i)

CountdownSpec == Init /\ [][CountdownNext]_vars

(* A break request while the banner of an earlier one has timers pending.  *)
SupersedeDurations == {0, 1001}

SupersedeNext ==
    \/ \E d \in Domains : load.pc = "none" /\ LoadDomainInfo(d)
    \/ \E durationMs \in SupersedeDurations :
           breakCount < MaxSupersedeBreaks /\ StartBreak(durationMs)
    \/ \E i \in BreakIds : PreStartTick(i)
    \/ \E i \in BreakIds : ActiveTick(i)
    \/ \E i \in BreakIds : PreEndTick(i)
    \/ \E i \in BreakIds : breaks[i].endEarly < MaxSupersedeClicks /\ HandleEndEarly(i)
    \/ \E i \in BreakIds : EndEarlyTimeout(i)

SupersedeSpec == Init /\ [][SupersedeNext]_vars

(* The life of a break banner, from the request to its removal, with timers  *)
(* that fire; a request comes when no call before has a timer or a timeout  *)
(* pending, so that no banner is replaced before its own timeouts remove it. *)
LifecycleDurations == {0, 1001}

\* a timer or a timeout of the call is pending
Pending(b) == Live(b) \/ b.fade \/ b.removals > 0

\* a timer or a timeout of a startBreak call fires
TimerStep ==
    \E i \in BreakIds :
        \/ PreStartTick(i)
        \/ ActiveTick(i)
        \/ PreEndTick(i)
        \/ EndEarlyTimeout(i)
        \/ FadeTimeout(i)
        \/ RemoveTimeout(i)

LifecycleNext ==
    \/ \E d \in Domains : load.pc = "none" /\ LoadDomainInfo(d)
    \/ \E durationMs \in LifecycleDurations :
           /\ breakCount < MaxLifecycleBreaks
           /\ \A i \in 1..breakCount : ~Pending(breaks[i])
           /\ StartBreak(durationMs)
    \/ \E i \in BreakIds : breaks[i].endEarly < MaxLifecycleClicks /\ HandleEndEarly(i)
    \/ TimerStep

LifecycleSpec == Init /\ [][LifecycleNext]_vars /\ WF_vars(TimerStep)

----------------------------------------------------------------------------
(* Properties *)

TwoHours == BREAK_THRESHOLDS[3]
ThreeHours == BREAK_THRESHOLDS[2]

ShowBreakSent == \E i \in DOMAIN sent' : sent'[i].action = "showBreak"
NudgeSent == \E i \in DOMAIN sent' : sent'[i].action = "getBackToWork"

\* the step in which an addDomainTime handler writes the map; the step in which a tick
\* gets the latch back
AddWrote(a) == addReq[a].pc = "prefs" /\ addReq'[a].pc = "set"
LatchRead == tick.pc = "latch" /\ tick'.pc # "latch"

\* C1: when focus-change handlers that close an interval on the same domain overlap,
\* the persisted time of the domain includes the delta of each of them: once no
\* handler is in flight, the time of every domain is the sum of the deltas added to it
\* (focus-change handlers are the only writers).
C1_NoLostUpdate ==
    (Quiescent /\ addCount = 0) => \A d \in Domains : domainStats[d].time = credited[d]

\* C2: between two resets of the latch each threshold is shown at most once; a tick
\* that finds a productive duration of at least 2h and below 3h with the latch at 0
\* sends exactly one showBreak, for 2h, and a tick that finds such a duration with the
\* latch not at 0 sends none.
C2_LatchOncePerCycle ==
    /\ [](\A i \in DOMAIN BREAK_THRESHOLDS : shownInCycle[i] <= 1)
    /\ [][LatchRead /\ tick.productiveDuration >= TwoHours
                    /\ tick.productiveDuration < ThreeHours
             => IF tick.lastShown = 0
                THEN sent' = << Msg("showBreak", TwoHours) >>
                ELSE ~ShowBreakSent]_vars

C2_Witness ==
    /\ shownInCycle[3] = 1
    /\ lastShownBreakThreshold = TwoHours
    /\ tick.pc = "latch"
    /\ tick.lastShown = TwoHours
    /\ tick.productiveDuration >= TwoHours
    /\ tick.productiveDuration < ThreeHours

\* C5: a getBackToWork broadcast that is not the first follows a productive or school
\* interval closed since the broadcast before it, and a distracting interval closed
\* after that one.
C5_NudgeNeedsProductiveInterval ==
    [][NudgeSent => sinceNudge \in {"never", "prodDist"}]_vars

\* C6: a tick broadcasts getBackToWork only when the distraction streak start is set
\* and the tick's now minus that start is at least 15 minutes; the broadcast clears the
\* start; and no tick broadcasts it again before a focus change has closed an interval.
C6_NudgeOnlyWhenDue ==
    [][NudgeSent =>
          LET now == IF tick.pc = "idle" THEN clock ELSE tick.now
          IN  /\ distractingStart # 0
              /\ now - distractingStart >= GET_BACK_THRESHOLD
              /\ distractingStart' = 0
              /\ sinceNudge \in {"never", "dist", "prodDist"}]_vars

C6_Witness ==
    /\ sent = << Msg("getBackToWork", Hour) >>
    /\ distractingStart = 0
    /\ sinceNudge = "none"

\* C7: with the requests handled one after another, every domain's persisted time is
\* the sum of the deltas added to it, and the write of an addDomainTime request raises
\* the time of its domain by its delta and leaves the entries of the other domains as
\* they are.
C7_AddDomainTimeAdditive ==
    /\ [](\A d \in Domains : domainStats[d].time = credited[d])
    /\ [][\A a \in AddSlots : AddWrote(a) =>
             LET d == addReq[a].domain
             IN  /\ domainStats'[d].time = domainStats[d].time + addReq[a].delta
                 /\ \A e \in Domains \ {d} : domainStats'[e] = domainStats[e]]_vars

C7_Witness ==
    /\ Quiescent
    /\ addCount = 2
    /\ domainStats[<<"g">>].time = 1000 + 15000
    /\ domainStats[<<"y">>].present

\* C8: domainStats grows append-only: a domain that has an entry keeps it, and its
\* accumulated time never decreases.
C8_AppendOnly ==
    [][\A d \in Domains :
          domainStats[d].present =>
              /\ domainStats'[d].present
              /\ domainStats'[d].time >= domainStats[d].time]_vars

\* C3: a startBreak call that reached the active countdown sends endBreakGlobal at
\* most once, and exactly once when none of its timers is pending any more.
C3_OneEndBreakGlobal ==
    \A i \in BreakIds :
        /\ breaks[i].ended <= 1
        /\ (breaks[i].started > 0 /\ ~Live(breaks[i])) => breaks[i].ended = 1

\* C4: at most one startBreak call has a timer pending, and a call whose banner a later
\* call replaced sends no startBreakGlobal and no endBreakGlobal from then on.
C4_OneLiveBreak ==
    /\ Cardinality({i \in BreakIds : Live(breaks[i])}) <= 1
    /\ \A i \in BreakIds : breaks[i].late = 0

\* C9: whenever the monitor is not counting, unsentAccumMs is 0 and the deltaMs of the
\* addDomainTime messages sent so far add up to the time the ticks counted.
C9_StopNeverDiscards ==
    (ScriptRunning /\ ~isCounting) => (unsentAccumMs = 0 /\ sentMs = countedMs)

\* C9 (amended): on a page with a domain, whenever the monitor is not counting,
\* unsentAccumMs is 0 and the deltaMs of the addDomainTime messages sent so far add up
\* to the time the ticks counted; while it counts, they add up to it with unsentAccumMs.
C9_StopNeverDiscardsWithDomain ==
    (ScriptRunning /\ currentDomain # NullDomain) =>
        /\ sentMs + unsentAccumMs = countedMs
        /\ ~isCounting => (unsentAccumMs = 0 /\ sentMs = countedMs)

C9_Witness ==
    /\ currentDomain # NullDomain
    /\ ~isCounting
    /\ countedMs = BATCH_MS + TICK_MS
    /\ sentMs = countedMs
    /\ unsentAccumMs = 0
    /\ sent = << Msg("addDomainTime", TICK_MS) >>

\* C10: when the answer to getDomainTime arrives, baseDomainTimeMs becomes 0 if
\* Date.now() minus the lastActive of the answer exceeds 30 minutes and the time of the
\* answer otherwise; and it becomes the time of the answer when a writer of domainStats
\* recorded time for the domain less than 30 minutes before.
C10_ResetGapPolicy ==
    [][(load.pc = "read" /\ load'.pc = "done") =>
          /\ baseDomainTimeMs' = IF clock - load.lastActive > RESET_GAP_MS
                                 THEN 0 ELSE load.time
          /\ (load.recordedAt # 0 /\ clock - load.recordedAt < RESET_GAP_MS)
                 => baseDomainTimeMs' = load.time]_vars

\* the scan C13 describes: categories in map order, patterns in list order, the first
\* pattern that is a substring of hostname+path or of the raw URL (the empty pattern too,
\* unless skipEmpty)
IsSubstring(url, p) == Includes(hostname(url) \o pathname(url), p) \/ Includes(url, p)

RECURSIVE FirstMatchFrom(_, _, _, _, _)
FirstMatchFrom(url, map, i, j, skipEmpty) ==
    IF i > Len(map) THEN "other"
    ELSE IF j > Len(map[i].patterns) THEN FirstMatchFrom(url, map, i + 1, 1, skipEmpty)
    ELSE IF /\ IsSubstring(url, map[i].patterns[j])
            /\ ~(skipEmpty /\ map[i].patterns[j] = <<>>)
         THEN map[i].cat
    ELSE FirstMatchFrom(url, map, i, j + 1, skipEmpty)

Called == classified # NotClassified

\* C13: for every URL (that parses; the others are C14's) and every map the classifier
\* returns the category of the first pattern, categories in map order and patterns in
\* list order, that is a substring of hostname+path or of the raw URL, and "other" when
\* there is none.
C13_FirstMatchWins ==
    (Called /\ UrlValid(classified.url)) =>
        classified.category =
            FirstMatchFrom(classified.url, classified.map, 1, 1, FALSE)

\* C13 (amended): for every URL that parses and every map, the classifier returns the
\* category of the first pattern that is not empty and is a substring of hostname+path or
\* of the raw URL, categories in map order and patterns in list order, and "other" when
\* there is none.
C13_FirstNonEmptyMatchWins ==
    (Called /\ UrlValid(classified.url)) =>
        classified.category =
            FirstMatchFrom(classified.url, classified.map, 1, 1, TRUE)

C13_Witness ==
    /\ classified.url = <<":", "x", "/", "y">>
    /\ classified.map = << [cat |-> "A", patterns |-> << <<"x">> >>],
                           [cat |-> "B", patterns |-> << <<"x", "/", "y">> >>] >>
    /\ classified.category = "A"

\* C14: for a URL that does not parse the classifier returns "other", whatever the map.
C14_UnparseableIsOther ==
    (Called /\ ~UrlValid(classified.url)) => classified.category = "other"

C14_Witness ==
    /\ classified.url = <<"x", "/", "y">>
    /\ classified.map = << [cat |-> "A", patterns |-> << <<"x">> >>] >>
    /\ classified.category = "other"

\* the requests of C12: no domain, or a deltaMs that is not a number above 0
BadAddRequest(domain, deltaMs) ==
    domain = NullDomain \/ deltaMs.type # "number" \/ deltaMs.value <= 0

SummarizeAnswered == sent' # <<>> /\ sent'[1].action = "summarize"

\* C16: a summarize request is answered in every state, the answer is always
\* {ok: false, error: 'summarizer_removed'}, and the step changes no tracker state and
\* no persisted value.
C16_SummarizeRemoved ==
    /\ [](ENABLED Summarize)
    /\ [][SummarizeAnswered =>
             /\ sent' = << Msg("summarize", [ok |-> FALSE, error |-> "summarizer_removed"]) >>
             /\ UNCHANGED <<clock, trackerVars, contentVars>>]_vars

C16_Witness ==
    /\ sent = << Msg("summarize", [ok |-> FALSE, error |-> "summarizer_removed"]) >>
    /\ tick.pc # "idle"
    /\ productiveAccumulated > 0
    /\ lastShownBreakThreshold = TwoHours

\* the step of handler h that updates the streaks for the interval it closed
StreaksStep(h) == focus[h].pc = "set" /\ focus'[h].pc # "set"

\* C17: closing an interval of category productive or school sets the productivity
\* streak start to the start of the closed interval if it was unset and leaves it as it
\* is otherwise, adds the interval's delta to the accumulated time, and clears the
\* distraction streak start.
C17_ProductiveClose ==
    [][(StreaksStep(1) /\ focus[1].cat \in {"productive", "school"}) =>
          /\ productiveSessionStart' =
                 IF productiveSessionStart = 0 THEN focus[1].now - focus[1].delta
                 ELSE productiveSessionStart
          /\ productiveAccumulated' = productiveAccumulated + focus[1].delta
          /\ distractingStart' = 0]_vars

C17_Witness ==
    /\ focusCount = 3
    /\ focus[1].pc = "prefs2"
    /\ domainStats[<<"c">>].category = "school"
    /\ domainStats[<<"c">>].time = Hour
    /\ productiveSessionStart = T0 + Hour
    /\ productiveAccumulated = Hour
    /\ distractingStart = 0
    /\ domainStats[<<"y">>].time = Hour

\* C18: closing an interval of category social, games or other clears the productivity
\* streak start, and sets the distraction streak start to the start of the closed
\* interval (now minus delta) only if it was unset; a running distraction streak keeps
\* its earlier start.
C18_DistractingClose ==
    [][(StreaksStep(1) /\ focus[1].cat \in {"social", "games", "other"}) =>
          /\ productiveSessionStart' = 0
          /\ distractingStart' =
                 IF distractingStart = 0 THEN focus[1].now - focus[1].delta
                 ELSE distractingStart]_vars

C18_Witness ==
    /\ focusCount = 3
    /\ focus[1].pc = "prefs2"
    /\ domainStats[<<"r">>].category = "games"
    /\ domainStats[<<"r">>].time = Hour
    /\ domainStats[<<"y">>].time = Hour
    /\ distractingStart = T0
    /\ productiveSessionStart = 0

\* the effective productive duration at the current instant: the accumulated time, plus
\* the age of the streak when one is open
EffectiveDuration ==
    productiveAccumulated
    + (IF productiveSessionStart # 0 THEN clock - productiveSessionStart ELSE 0)

\* the largest of the thresholds that is reached and above the latch, 0 when none is
LargestDue(effective, latch) ==
    LET due == { t \in { BREAK_THRESHOLDS[i] : i \in DOMAIN BREAK_THRESHOLDS } :
                     effective >= t /\ latch < t }
    IN  IF due = {} THEN 0 ELSE CHOOSE t \in due : \A u \in due : u <= t

\* the steps of a tick: its start with a streak open, and its start without one
TickStartsOpen == tick.pc = "idle" /\ tick'.pc = "latch"
TickStartsClosed == tick.pc = "idle" /\ tick'.pc = "persist"

\* C20: a tick broadcasts at most one showBreak (only the step that has the latch back
\* broadcasts, and one message); a tick that starts with a streak open takes the
\* effective duration and the latch of that instant, broadcasts the largest threshold of
\* 4h, 3h, 2h that the duration has reached and that is above the latch, and sets the
\* latch to it; when there is no such threshold, and in a tick that starts without an
\* open streak, nothing is broadcast and the latch stays as it is.
C20_OneLargestThreshold ==
    /\ [][ShowBreakSent => (LatchRead /\ Len(sent') = 1)]_vars
    /\ [][TickStartsOpen => /\ tick'.productiveDuration = EffectiveDuration
                            /\ tick'.lastShown = lastShownBreakThreshold]_vars
    /\ [][LatchRead =>
             LET T == LargestDue(tick.productiveDuration, tick.lastShown)
             IN  IF T # 0
                 THEN /\ sent' = << Msg("showBreak", T) >>
                      /\ lastShownBreakThreshold' = T
                 ELSE /\ ~ShowBreakSent
                      /\ lastShownBreakThreshold' = lastShownBreakThreshold]_vars
    /\ [][TickStartsClosed => /\ ~ShowBreakSent
                              /\ lastShownBreakThreshold' = lastShownBreakThreshold]_vars

C20_Witness ==
    /\ tick.pc = "latchset"
    /\ tick.productiveDuration >= BREAK_THRESHOLDS[1]
    /\ tick.lastShown = 0
    /\ sent = << Msg("showBreak", BREAK_THRESHOLDS[1]) >>
    /\ lastShownBreakThreshold = BREAK_THRESHOLDS[1]

\* C19: a tick that starts with no streak open, the accumulated time at 2h or more and
\* the latch below 2h makes the threshold check like a tick with a streak open: it
\* broadcasts showBreak, or goes on to the read of the latch that precedes the broadcast.
C19_ClosedStreakTickShows ==
    [][(/\ tick.pc = "idle"
        /\ tick'.pc # "idle"
        /\ productiveSessionStart = 0
        /\ productiveAccumulated >= TwoHours
        /\ lastShownBreakThreshold < TwoHours)
          => (ShowBreakSent \/ tick'.pc = "latch")]_vars

\* the step in which the save of handler h fails
SaveFailed(h) == focus[h].pc = "get" /\ focus'[h].pc \notin {"get", "set"}

LongProductiveFocus ==
    /\ activeCategory \in {"productive", "school"}
    /\ activeDomain # NullDomain
    /\ clock - activeStart >= TwoHours
    /\ focus[1].pc = "idle"
    /\ lastShownBreakThreshold = 0

BreakShown == \E i \in DOMAIN sent : sent[i].action = "showBreak"

\* C11: when a productive or school domain has been in focus for 2 hours or more without
\* a focus change and the latch is 0, then, as long as the focus does not change, some
\* tick eventually broadcasts showBreak.
C11_BreakEventuallyShown ==
    \A n \in 0..MaxLiveFocusChanges :
        (LongProductiveFocus /\ focusCount = n) ~> (BreakShown \/ focusCount # n)

\* the values the latch can take
LatchValues == {0} \cup { BREAK_THRESHOLDS[i] : i \in DOMAIN BREAK_THRESHOLDS }

\* C21: the latch is always 0 or one of 2h, 3h, 4h; only a reset lowers it; and a
\* threshold is broadcast only when neither it nor a higher one has been broadcast since
\* the last reset, so the thresholds broadcast between two resets are strictly increasing.
C21_LatchMonotonic ==
    /\ [](lastShownBreakThreshold \in LatchValues)
    /\ [][lastShownBreakThreshold' < lastShownBreakThreshold => ResetBreakShown]_vars
    /\ [][ShowBreakSent =>
             \A i \in DOMAIN BREAK_THRESHOLDS :
                 BREAK_THRESHOLDS[i] >= sent'[1].arg => shownInCycle[i] = 0]_vars

C21_Witness ==
    /\ lastShownBreakThreshold = ThreeHours
    /\ shownInCycle = <<0, 1, 1>>
    /\ sent = << Msg("showBreak", ThreeHours) >>

\* a step that answers a resetBreakShown request
ResetAnswered == sent' = << Msg("response", TRUE) >> /\ addReq' = addReq

C23_IntervalCountedOnce ==
    [][TickStartsOpen =>
          tick'.productiveDuration <= carried + (clock - productiveSessionStart)]_vars

\* a step of the install or startup listener; a step of a tick
BootStep == boot' # boot
TickStep == tick' # tick /\ boot' = boot

\* C24: the accumulated productive time carries over across broken streaks: a focus
\* change never lowers it; closing a distracting interval clears the streak start and
\* leaves the accumulated time as it is; no tick changes it; and it changes only by the
\* delta of a productive or school interval being closed, or in a step of the install or
\* startup listener.
C24_AccumulatedCarriesOver ==
    /\ [][(focus' # focus /\ ~BootStep) =>
             productiveAccumulated' >= productiveAccumulated]_vars
    /\ [][(StreaksStep(1) /\ ~BootStep /\ focus[1].cat \in {"social", "games", "other"}) =>
             /\ productiveSessionStart' = 0
             /\ productiveAccumulated' = productiveAccumulated]_vars
    /\ [][TickStep => productiveAccumulated' = productiveAccumulated]_vars
    /\ [][productiveAccumulated' # productiveAccumulated =>
             \/ BootStep
             \/ /\ StreaksStep(1)
                /\ focus[1].cat \in {"productive", "school"}
                /\ productiveAccumulated' = productiveAccumulated + focus[1].delta]_vars

C24_Witness ==
    /\ focusCount = 3
    /\ boot.count = 0
    /\ productiveSessionStart = 0
    /\ distractingStart = T0 + Hour
    /\ productiveAccumulated = Hour
    /\ domainStats[<<"y">>].present

----------------------------------------------------------------------------
\* the step that starts a focus-change handler; the step in which a handler called with
\* no tab replaces the active tab info (at once, or after it has closed an interval)
FocusChangeStarts == focusCount' = focusCount + 1
NoTabReplaces(h) ==
    \/ FocusChangeStarts /\ activeDomain = NullDomain /\ focus'[h].pc = "idle"
    \/ focus[h].pc = "set" /\ focus[h].tab = NoTab /\ focus'[h].pc = "idle"
NoTabNow(h) == IF focus[h].pc = "set" THEN focus[h].now ELSE clock
TotalStored == domainStats[<<"g">>].time + domainStats[<<"y">>].time + domainStats[<<"c">>].time
                   + domainStats[<<"r">>].time + domainStats[<<"o">>].time

\* C25: a focus change with no tab leaves no active domain, no active category and the
\* handler's now as the start time; a focus change that starts while there is no active
\* domain writes no domain time and changes no streak, at that step or later (it never
\* waits on saveDomainTime), so the time without a tab is added to no domain.
C25_NoTabTimeUnattributed ==
    /\ [][NoTabReplaces(1) => /\ activeDomain' = NullDomain
                              /\ activeCategory' = NullCat
                              /\ activeStart' = NoTabNow(1)]_vars
    /\ [][(FocusChangeStarts /\ activeDomain = NullDomain)
             => /\ UNCHANGED <<domainStats, streakVars>>
                /\ focus'[1].pc \in {"idle", "prefs2"}]_vars
    /\ [][(focus[1].pc = "prefs2" /\ focus'[1].pc # "prefs2")
             => UNCHANGED <<domainStats, streakVars>>]_vars

\* an hour on g, an hour with no tab, then y comes into focus: g has its hour, and the
\* hour without a tab is nowhere
C25_Witness ==
    /\ focusCount = 3
    /\ clock = T0 + 2 * Hour
    /\ activeDomain = <<"y">>
    /\ activeStart = T0 + 2 * Hour
    /\ focus[1].pc = "idle"
    /\ domainStats[<<"g">>].time = Hour
    /\ TotalStored = Hour
    /\ productiveAccumulated = Hour

----------------------------------------------------------------------------
\* C26: an interval is closed by one focus-change handler, also when handlers overlap:
\* its time is added once to the persisted time of its domain and once to the accumulated
\* productive time, so neither exceeds the time that has passed since the script loaded.
C26_IntervalClosedOnce ==
    /\ productiveAccumulated <= clock - T0
    /\ \A d \in Domains : domainStats[d].time <= clock - T0

----------------------------------------------------------------------------
\* C27: a span of time is added to the persisted time of a domain at most once, by the
\* tracker or by the content script: the persisted time of a domain is never more than
\* the time that has passed, which bounds the time the domain was in focus.
C27_PersistedWithinFocusTime ==
    \A d \in Domains : domainStats[d].time <= clock - T0

----------------------------------------------------------------------------
\* the start of the inactivity window has passed by more than the timeout
TimedOut == clock - lastActivity > INACTIVITY_MS

\* C28: the inactivity window of 60 s starts at the last input event: an inactivity check
\* that runs while counting after the window has passed stops the counting; after that
\* no tick counts time and counting starts again only at a step that sets the start of
\* the window to now with the visibility unchanged (an input event); and a change of
\* visibility never moves the start of the window.
C28_InactivityWindow ==
    /\ [][(isCounting /\ TimedOut /\ ~isCounting') => unsentAccumMs' = 0]_vars
    /\ [][(TimedOut /\ ~isCounting /\ isCounting')
             => (lastActivity' = clock /\ hidden' = hidden)]_vars
    /\ [][hidden' # hidden => lastActivity' = lastActivity]_vars

----------------------------------------------------------------------------
\* C29: the monitor counts only on a visible page: in every reachable state isCounting
\* implies that the page is not hidden.
C29_CountingImpliesVisible == isCounting => ~hidden

----------------------------------------------------------------------------
\* the step in which the interval of startCounting counts a second; the step in which
\* the answer to getDomainTime sets baseDomainTimeMs
TickCounts == isCounting /\ activityInterval /\ ~hidden /\ countedMs' = countedMs + TICK_MS
BaseLoaded == load.pc = "read" /\ load'.pc = "done"
DisplayedTotal == baseDomainTimeMs + unsentAccumMs

\* C30: unsentAccumMs grows, and baseDomainTimeMs + unsentAccumMs grows, only in a step
\* in which the interval fires while the monitor counts and the page is visible.
C30_CountedOnlyVisible ==
    /\ [][unsentAccumMs' > unsentAccumMs => TickCounts]_vars
    /\ [][DisplayedTotal' > DisplayedTotal => TickCounts]_vars

\* C30 (amended): unsentAccumMs grows only in a step in which the interval fires while
\* the monitor counts and the page is visible, and then by one tick; baseDomainTimeMs +
\* unsentAccumMs grows only in such a step, by one tick, or when the answer to
\* getDomainTime sets baseDomainTimeMs.
C30_CountedOnlyVisibleOrLoaded ==
    /\ [][unsentAccumMs' > unsentAccumMs
             => (TickCounts /\ unsentAccumMs' = unsentAccumMs + TICK_MS)]_vars
    /\ [][DisplayedTotal' > DisplayedTotal
             => \/ TickCounts /\ DisplayedTotal' = DisplayedTotal + TICK_MS
                \/ BaseLoaded]_vars

\* two seconds counted and flushed when the page was hidden; an idle "active" signal has
\* started the interval again on the hidden page, and nothing more has been counted
C30_Witness ==
    /\ hidden
    /\ isCounting
    /\ activityInterval
    /\ countedMs = 2 * TICK_MS
    /\ sentMs = 2 * TICK_MS
    /\ unsentAccumMs = 0
    /\ baseDomainTimeMs = 2 * TICK_MS
    /\ sent = <<>>

----------------------------------------------------------------------------
\* C31: an input event on a visible page sets lastActivity to now and leaves the monitor
\* counting, and when the monitor was counting already it sets no further interval; in
\* every reachable state at most one counting interval is live, and one is live exactly
\* when the monitor counts.
C31_OneCountingTimer ==
    /\ [](timers <= 1)
    /\ []((timers = 1) <=> isCounting)
    /\ [](isCounting <=> activityInterval)
    /\ [][(OnUserActivity /\ ~hidden)
             => /\ lastActivity' = clock
                /\ isCounting'
                /\ isCounting => timers' = timers]_vars

\* an input event a timeout after the load, on a visible page, with a second counted
C31_Witness ==
    /\ isCounting
    /\ ~hidden
    /\ timers = 1
    /\ lastActivity = T0 + INACTIVITY_MS + 1
    /\ countedMs = TICK_MS
    /\ unsentAccumMs = TICK_MS

----------------------------------------------------------------------------
\* the step in which the interval counts the second that completes a batch
BatchTick == countedMs' = countedMs + TICK_MS /\ unsentAccumMs + TICK_MS = BATCH_MS

\* C32: on a page with a domain unsentAccumMs is a multiple of the tick period and below
\* the batch size in every reachable state; the tick that completes a batch sends one
\* addDomainTime message with deltaMs of the batch size and no other message, adds the
\* batch to baseDomainTimeMs and sets unsentAccumMs to 0.
C32_BatchBound ==
    /\ []((ScriptRunning /\ currentDomain # NullDomain)
             => (unsentAccumMs % TICK_MS = 0 /\ unsentAccumMs < BATCH_MS))
    /\ [][(BatchTick /\ currentDomain # NullDomain)
             => /\ sent' = << Msg("addDomainTime", BATCH_MS) >>
                /\ baseDomainTimeMs' = baseDomainTimeMs + BATCH_MS
                /\ unsentAccumMs' = 0]_vars

\* the fifteenth second has just been counted and its batch sent
C32_Witness ==
    /\ currentDomain # NullDomain
    /\ isCounting
    /\ countedMs = BATCH_MS
    /\ unsentAccumMs = 0
    /\ baseDomainTimeMs = BATCH_MS
    /\ sent = << Msg("addDomainTime", BATCH_MS) >>

----------------------------------------------------------------------------
\* the step in which stopCounting flushes; the step in which the interval counts a second
StopFlushes ==
    /\ isCounting /\ ~isCounting'
    /\ UNCHANGED <<currentDomain, load, lastActivity, countedMs>>
SecondCounted == countedMs' = countedMs + TICK_MS

\* C33: a flush leaves baseDomainTimeMs + unsentAccumMs as it was, moving the unsent time
\* into baseDomainTimeMs and sending it; a flush with nothing unsent or on a page without
\* a domain sends no message and changes neither; a tick that counts raises the sum by
\* one tick period.
C33_DisplayedTotal ==
    /\ [][StopFlushes => DisplayedTotal' = DisplayedTotal]_vars
    /\ [][(StopFlushes /\ unsentAccumMs > 0 /\ currentDomain # NullDomain)
             => /\ sent' = << Msg("addDomainTime", unsentAccumMs) >>
                /\ baseDomainTimeMs' = baseDomainTimeMs + unsentAccumMs
                /\ unsentAccumMs' = 0]_vars
    /\ [][(StopFlushes /\ (unsentAccumMs = 0 \/ currentDomain = NullDomain))
             => (sent' = <<>> /\ UNCHANGED <<baseDomainTimeMs, unsentAccumMs>>)]_vars
    /\ [][SecondCounted => DisplayedTotal' = DisplayedTotal + TICK_MS]_vars

\* three seconds counted, then the page was hidden: the flush moved them
C33_Witness ==
    /\ currentDomain # NullDomain
    /\ hidden
    /\ ~isCounting
    /\ countedMs = 3 * TICK_MS
    /\ unsentAccumMs = 0
    /\ baseDomainTimeMs = 3 * TICK_MS
    /\ sent = << Msg("addDomainTime", 3 * TICK_MS) >>

----------------------------------------------------------------------------
\* C34: the answer to getDomainTime erases no time counted on the page: when it sets
\* baseDomainTimeMs, baseDomainTimeMs + unsentAccumMs is afterwards at least the time
\* the ticks have counted since the page loaded, flushed or not.
C34_LoadKeepsCountedTime ==
    [][BaseLoaded => DisplayedTotal' >= countedMs]_vars

----------------------------------------------------------------------------
\* the steps in which the background reads the store for getDomainTime and answers
\* getSummary; an answer to getDomainTime whose lastActive is past the reset gap
DomainTimeRead == load.pc = "asked" /\ load'.pc = "read"
SummaryAnswered == Len(sent') = 1 /\ sent'[1].action = "summary"
StaleAnswer == BaseLoaded /\ clock - load.lastActive > RESET_GAP_MS

----------------------------------------------------------------------------
\* the step of a startBreak call; the step in which the pre-start countdown of call i
\* ticks; a startBreakGlobal message in the step
BreakRequested == breakCount' = breakCount + 1
PreTicked(i) == breaks[i].preInterval /\ breaks'[i].preCount # breaks[i].preCount
StartGlobalSent == Len(sent') = 1 /\ sent'[1].action = "startBreakGlobal"

\* what C36 says of the pre-start countdown, but for the remaining time: a startBreak
\* call leaves its instance in the pre-start countdown at PRE_COUNT, not yet active; each
\* tick lowers the count by 1, and the tick makes the instance active, and sends
\* startBreakGlobal with the requested duration, exactly when the count has reached 0;
\* an instance has sent startBreakGlobal once if its count is 0 and never otherwise.
PreStartCountdown ==
    /\ [][BreakRequested
             => /\ breaks'[breakCount'].preInterval
                /\ breaks'[breakCount'].preCount = PRE_COUNT
                /\ ~breaks'[breakCount'].interval
                /\ breaks'[breakCount'].started = 0]_vars
    /\ [][\A i \in BreakIds : PreTicked(i)
             => /\ breaks'[i].preCount = breaks[i].preCount - 1
                /\ breaks'[i].interval <=> breaks'[i].preCount = 0
                /\ breaks'[i].preInterval <=> breaks'[i].preCount > 0
                /\ StartGlobalSent <=> breaks'[i].preCount = 0
                /\ StartGlobalSent => sent'[1].arg = breaks[i].durationMs]_vars
    /\ [](\A i \in BreakIds :
             breaks[i].started = IF i <= breakCount /\ breaks[i].preCount = 0 THEN 1 ELSE 0)

\* C36: the pre-start countdown as above, and at the transition to the active countdown
\* the remaining time is the requested duration.
C36_PreStartToActive ==
    /\ PreStartCountdown
    /\ [][\A i \in BreakIds : (PreTicked(i) /\ breaks'[i].interval)
             => breaks'[i].remaining * 1000 = breaks[i].durationMs]_vars

\* C36 (amended): the pre-start countdown as above, and at the transition to the active
\* countdown the remaining time is the requested duration in whole seconds, rounded up,
\* and 0 for a duration of 0 or less.
C36_PreStartToActiveRounded ==
    /\ PreStartCountdown
    /\ [][\A i \in BreakIds : (PreTicked(i) /\ breaks'[i].interval)
             => /\ breaks'[i].remaining >= 0
                /\ breaks'[i].remaining * 1000 >= breaks[i].durationMs
                /\ breaks[i].durationMs > 0
                       => (breaks'[i].remaining - 1) * 1000 < breaks[i].durationMs
                /\ breaks[i].durationMs <= 0 => breaks'[i].remaining = 0]_vars

\* a break of 1001 ms has just become active with 2 s remaining
C36_Witness ==
    \E i \in BreakIds :
        /\ breaks[i].durationMs = 1001
        /\ breaks[i].preCount = 0
        /\ breaks[i].started = 1
        /\ breaks[i].interval
        /\ breaks[i].remaining = 2
        /\ sent = << Msg("startBreakGlobal", 1001) >>

----------------------------------------------------------------------------
\* the step in which the active countdown of call i ticks
ActiveTicked(i) == breaks[i].interval /\ breaks'[i].remaining # breaks[i].remaining

\* C37: each tick of the active countdown lowers the remaining time by one second, and
\* the remaining time of no instance is below 0 in any reachable state, whatever the
\* requested duration, 0 and negative ones included.
C37_RemainingNeverNegative ==
    /\ [][\A i \in BreakIds : ActiveTicked(i)
             => breaks'[i].remaining = breaks[i].remaining - 1]_vars
    /\ [](\A i \in BreakIds : breaks[i].remaining >= 0)

----------------------------------------------------------------------------
\* the instance of call i is in its active phase: started, and neither in the pre-end
\* countdown nor ended
InActive(b) == b.started = 1 /\ ~b.preInterval /\ ~b.endTimer /\ b.ended = 0

\* the steps of call i: a click on its close button; a timeout of handleEndEarly
\* fires; its pre-end countdown starts
Clicked(i) == breaks'[i].endEarly = breaks[i].endEarly + 1
EarlyEnded(i) == breaks'[i].endEarly = breaks[i].endEarly - 1
PreEndStarted(i) == ~breaks[i].endTimer /\ breaks'[i].endTimer

\* C38: a click on the close button happens only in the active phase and stops the
\* interval of the active countdown, which never ticks again; the timeout of the click
\* ends the instance, with endBreakGlobal, and no pre-end countdown has run or is
\* running; the pre-end countdown starts only at the tick of the active countdown that
\* brings the remaining time to 0, with no click before it; and while or after the
\* pre-end countdown runs there is no close button and no timeout of a click pending.
C38_EarlyEndOnlyWhenActive ==
    /\ [][\A i \in BreakIds : Clicked(i)
             => /\ InActive(breaks[i])
                /\ breaks[i].endCount = 0
                /\ ~breaks'[i].interval]_vars
    /\ [][\A i \in BreakIds : ActiveTicked(i)
             => breaks[i].endEarly = 0 /\ breaks[i].ended = 0]_vars
    /\ [][\A i \in BreakIds : EarlyEnded(i)
             => /\ breaks'[i].ended = breaks[i].ended + 1
                /\ sent' = << Msg("endBreakGlobal", 0) >>
                /\ ~breaks[i].endTimer /\ ~breaks'[i].endTimer
                /\ breaks[i].endCount = 0 /\ breaks'[i].endCount = 0
                /\ ~breaks'[i].interval]_vars
    /\ [][\A i \in BreakIds : PreEndStarted(i)
             => /\ ActiveTicked(i)
                /\ breaks'[i].remaining <= 0
                /\ breaks'[i].endCount = PRE_COUNT
                /\ breaks[i].endEarly = 0 /\ breaks[i].ended = 0]_vars
    /\ [](\A i \in BreakIds :
             (breaks[i].endTimer \/ breaks[i].endCount > 0 \/ breaks[i].remaining < 0)
                 => ~breaks[i].closeBtn /\ breaks[i].endEarly = 0)

\* a break of 1001 ms was ended by a click with 1 s remaining: it ended once, its
\* interval is stopped and no pre-end countdown ran
C38_Witness ==
    \E i \in BreakIds :
        /\ breaks[i].durationMs = 1001
        /\ breaks[i].remaining = 1
        /\ breaks[i].ended = 1
        /\ breaks[i].endEarly = 0
        /\ ~breaks[i].interval
        /\ ~breaks[i].endTimer
        /\ breaks[i].endCount = 0
        /\ sent = << Msg("endBreakGlobal", 0) >>

----------------------------------------------------------------------------
\* the step in which a timer or timeout of call i fires
TimerFired(i) ==
    /\ breaks'[i] # breaks[i]
    /\ breakCount' = breakCount
    /\ ~Clicked(i)

\* C39: a timer or timeout of a call whose banner a later call has replaced changes
\* nothing of any other call when it fires: the phase, the counts and the remaining
\* time of the later call stay as they are.
C39_OldTimersLeaveNewInstance ==
    [][\A i \in BreakIds : (breaks[i].superseded /\ TimerFired(i))
          => \A j \in BreakIds \ {i} : breaks'[j] = breaks[j]]_vars

\* the first call was replaced during its pre-start countdown and has since become
\* active and sent startBreakGlobal, while the second is still at its first count
C39_Witness ==
    /\ breakCount = 2
    /\ breaks[1].superseded
    /\ breaks[1].late = 1
    /\ breaks[1].interval
    /\ breaks[2].attached
    /\ breaks[2].preInterval
    /\ breaks[2].preCount = PRE_COUNT
    /\ breaks[2].started = 0

----------------------------------------------------------------------------
\* the banner of the call was taken out of the document by a timeout of the call, and
\* none of its timeouts is pending
Removed(b) == b.removed /\ ~b.attached /\ ~b.fade /\ b.removals = 0

\* C40: with timers that fire, a call whose banner no later call replaces leads from
\* its pre-start countdown to a state where it has ended; when it has ended and its
\* banner is in the document, a timeout that fades or removes the banner is pending;
\* from there it leads to a state where a timeout of the call has taken the banner out
\* of the document and none is pending; and a startBreak call made when every banner
\* before was removed leaves a new banner in the document, in the pre-start countdown
\* at PRE_COUNT.
C40_EndsAndIsRemoved ==
    /\ [](\A i \in BreakIds : Pending(breaks[i]) => ~breaks[i].superseded)
    /\ \A i \in BreakIds : breaks[i].preInterval ~> breaks[i].ended >= 1
    /\ [](\A i \in BreakIds :
             (breaks[i].ended >= 1 /\ breaks[i].attached)
                 => breaks[i].fade \/ breaks[i].removals > 0)
    /\ \A i \in BreakIds : breaks[i].ended >= 1 ~> Removed(breaks[i])
    /\ [][(BreakRequested /\ \A i \in 1..breakCount : Removed(breaks[i]))
             => /\ breaks'[breakCount'].attached
                /\ breaks'[breakCount'].preInterval
                /\ breaks'[breakCount'].preCount = PRE_COUNT
                /\ breaks'[breakCount'].started = 0
                /\ breaks'[breakCount'].ended = 0]_vars

\* the first break ran to its natural end and its banner was removed by its timeouts;
\* the second call has put a new banner in the pre-start countdown
C40_Witness ==
    /\ breakCount = 2
    /\ breaks[1].ended = 1
    /\ breaks[1].endCount = 0
    /\ breaks[1].remaining <= 0
    /\ breaks[1].removed
    /\ ~breaks[1].attached
    /\ breaks[2].attached
    /\ breaks[2].preInterval
    /\ breaks[2].preCount = PRE_COUNT

====
